---- MODULE Spec2Model ----
(***************************************************************************)
(* A model of the tcc compilation pipeline: the AST-to-TAC lowering        *)
(* (src/tac/expr.rs), the stack-slot allocator and the TAC-to-x86          *)
(* generator (src/codegen.rs), together with an interpreter of the TAC and *)
(* of the emitted x86 instructions.                                        *)
(*                                                                         *)
(* Data are tagged tuples, the tag first:                                  *)
(*   Expr       <<"Int", v>>, <<"Var", n>>, <<"Assign", n, e>>,            *)
(*              <<"UnOp", op, e>>, <<"BinOp", op, a, b>>,                  *)
(*              <<"Ternary", c, x, y>>, <<"FunctionCall", f, args>>,       *)
(*              <<"PostfixInc", n>>, <<"PostfixDec", n>>,                  *)
(*              <<"PrefixInc", n>>, <<"PrefixDec", n>>                     *)
(*   Identifier <<number, size>>                                           *)
(*   TacVal     <<"Lit", v, size>>, <<"Var", identifier>>                  *)
(*   TacInstr   <<"Exit", val>>, <<"BinOp", dst, v1, v2, op>>,             *)
(*              <<"UnOp", dst, v, op>>, <<"Copy", dst, v>>,                *)
(*              <<"Label", l>>, <<"Jmp", l>>, <<"JmpZero", l, v>>,         *)
(*              <<"JmpNotZero", l, v>>, <<"Call", f, vals, optdst>>        *)
(*   Option     <<"None">>, <<"Some", x>>                                  *)
(***************************************************************************)
EXTENDS Integers, Sequences, FiniteSets, TLC

VARIABLES
    phase,          \* position of the pipeline
    input,          \* the expression, program or TAC list under compilation
    temp_counter,   \* the process-wide temporary-identifier counter
    label_counter,  \* the process-wide label counter
    tac,            \* the TAC list produced by the lowering
    org,            \* per TAC instruction, the AST path of the node that emitted it
    result_val,     \* the TacVal returned by generate_expr_tac
    tpc,            \* TAC interpreter: index of the next instruction
    tenv,           \* TAC interpreter: value of every identifier written so far
    tdone,          \* TAC interpreter: indices of the instructions executed so far
    tobs,           \* TAC interpreter: value each conditional jump observed
    reg_alloc,      \* the allocator's map from identifier to location
    num_bytes_needed, \* the frame size the allocator returned
    x86,            \* the X86Instr list generate_x86_code returned
    xorg,           \* per x86 instruction, the index of its TAC instruction (0: none)
    xpc,            \* x86 machine: index of the next instruction
    regs,           \* x86 machine: the registers
    mem,            \* x86 machine: the memory cells written so far, by address
    flags,          \* x86 machine: the operands of the last cmp or test
    xsteps,         \* x86 machine: number of instructions executed
    status          \* the exit status passed to the kernel

lowvars == <<temp_counter, label_counter, tac, org, result_val>>
tacvars == <<tpc, tenv, tdone, tobs>>
genvars == <<reg_alloc, num_bytes_needed, x86, xorg>>
xvars == <<xpc, regs, mem, flags, xsteps, status>>

vars == <<phase, input, lowvars, tacvars, genvars, xvars>>

---------------------------------------------------------------------------
(* Bounds of the model. *)

\* integer literals of the enumerated expressions are 0..MaxLit
MaxLit == 2
\* initial values of the source variables are 0..MaxInit
MaxInit == 1
\* the reference semantics follows at most MaxLoop iterations of the loops of a run
MaxLoop == 12
\* the x86 machine is followed for at most MaxSteps instructions
MaxSteps == 400
\* a memory cell nothing wrote holds any of 0..MaxGarbage
MaxGarbage == 1
\* the TAC lists given to the code generator directly have up to MaxTacLen instructions
MaxTacLen == 3

---------------------------------------------------------------------------
(* Options, sizes, identifiers, values. *)

None == <<"None">>
Some(x) == <<"Some", x>>
is_some(o) == o[1] = "Some"
unwrap_or(o, d) == IF is_some(o) THEN o[2] ELSE d

\* VarSize::default(): the size of an int
VarSizeDefault == "Dword"

unwrap_or_default(o) == unwrap_or(o, VarSizeDefault)

Lit(v, size) == <<"Lit", v, size>>
TVar(ident) == <<"Var", ident>>

\* integer division truncating toward zero (C's / and x86's idiv)
TruncDiv(a, b) ==
    IF (a >= 0) = (b >= 0)
    THEN (IF a >= 0 THEN a ELSE -a) \div (IF b >= 0 THEN b ELSE -b)
    ELSE -((IF a >= 0 THEN a ELSE -a) \div (IF b >= 0 THEN b ELSE -b))

TruncRem(a, b) == a - b * TruncDiv(a, b)

Bool2Int(b) == IF b THEN 1 ELSE 0

\* the value of a binary operator on two machine integers (b # 0 for / and %);
\* the values of the enumerated programs stay far inside the 32-bit range, where
\* the machine's arithmetic and the integers' agree
ApplyBinOp(op, a, b) ==
    CASE op = "Plus" -> a + b
      [] op = "Minus" -> a - b
      [] op = "Multiply" -> a * b
      [] op = "Divide" -> TruncDiv(a, b)
      [] op = "Modulus" -> TruncRem(a, b)
      [] op = "GreaterThan" -> Bool2Int(a > b)
      [] op = "GreaterThanEq" -> Bool2Int(a >= b)
      [] op = "LessThan" -> Bool2Int(a < b)
      [] op = "LessThanEq" -> Bool2Int(a <= b)
      [] op = "Equals" -> Bool2Int(a = b)
      [] op = "NotEquals" -> Bool2Int(a # b)

ApplyUnOp(op, a) ==
    CASE op = "Negation" -> -a
      [] op = "BitwiseComplement" -> -a - 1
      [] op = "Not" -> Bool2Int(a = 0)

---------------------------------------------------------------------------
(* The two global counters. st is the pair of counters threaded through    *)
(* the lowering: st.t the temporary counter, st.l the label counter.       *)

get_new_temp_name(size, st) ==
    [id |-> <<st.t, size>>, st |-> [st EXCEPT !.t = @ + 1]]

get_new_label_number(st) ==
    [n |-> st.l, st |-> [st EXCEPT !.l = @ + 1]]

resolve_variable_to_temp_name(name, code_env) == code_env[name]

---------------------------------------------------------------------------
(* Size inference. *)

\* the first argument that is a size, whatever the second
get_bigger_size_first_some(s1, s2) == IF is_some(s1) THEN s1 ELSE s2

get_bigger_size(s1, s2) ==
    IF s1 = Some("Quad") \/ s2 = Some("Quad") THEN Some("Quad")
    ELSE IF s1 = Some("Dword") \/ s2 = Some("Dword") THEN Some("Dword")
    ELSE IF s1 = Some("Word") \/ s2 = Some("Word") THEN Some("Word")
    ELSE IF s1 = Some("Byte") \/ s2 = Some("Byte") THEN Some("Byte")
    ELSE None

RECURSIVE get_expr_size(_, _)
get_expr_size(expr, code_env) ==
    CASE expr[1] = "Int" -> None
      [] expr[1] \in {"Var", "Assign", "PostfixDec", "PostfixInc", "PrefixDec", "PrefixInc"} ->
            Some(resolve_variable_to_temp_name(expr[2], code_env)[2])
      [] expr[1] = "UnOp" -> get_expr_size(expr[3], code_env)
      [] expr[1] = "BinOp" ->
            get_bigger_size(get_expr_size(expr[3], code_env), get_expr_size(expr[4], code_env))
      [] expr[1] = "Ternary" ->
            get_bigger_size(get_expr_size(expr[3], code_env), get_expr_size(expr[4], code_env))
      [] expr[1] = "FunctionCall" -> Some(VarSizeDefault)

---------------------------------------------------------------------------
(* AST-to-TAC lowering of expressions.  Every lowering returns             *)
(*   [instrs, org, val, st]: the instructions, for each instruction the    *)
(* path of the AST node that pushed it, the result value and the counters  *)
(* after the call.  path is the position of expr in the whole expression   *)
(* (the child indices from the root).                                      *)

Paths(n, path) == [i \in 1..n |-> path]

\* a label text without its number
label_text_unnumbered(prefix, n) == prefix

\* format!("{prefix}{label_num}")
label_text(prefix, n) == prefix \o ToString(n)

\* the "if let Some(ident) = target_temp_name { ident } else { get_new_temp_name(..) }" idiom
final_temp(target_temp_name, size, st) ==
    IF is_some(target_temp_name)
    THEN [id |-> target_temp_name[2], st |-> st]
    ELSE get_new_temp_name(size, st)

gen_postfix_tac(var, code_env, target_temp_name, st, path, op) ==
    LET ident == resolve_variable_to_temp_name(var, code_env)
        ft == final_temp(target_temp_name, ident[2], st)
    IN [instrs |-> << <<"Copy", ft.id, TVar(ident)>>,
                      <<"BinOp", ident, TVar(ident), Lit(1, ident[2]), op>> >>,
        org |-> Paths(2, path),
        val |-> TVar(ft.id),
        st |-> ft.st]

gen_postfix_inc_tac(var, code_env, target_temp_name, st, path) ==
    gen_postfix_tac(var, code_env, target_temp_name, st, path, "Plus")

gen_postfix_dec_tac(var, code_env, target_temp_name, st, path) ==
    gen_postfix_tac(var, code_env, target_temp_name, st, path, "Minus")

gen_prefix_tac(var, code_env, target_temp_name, st, path, op) ==
    LET ident == resolve_variable_to_temp_name(var, code_env)
        inc == <<"BinOp", ident, TVar(ident), Lit(1, ident[2]), op>>
    IN IF is_some(target_temp_name)
       THEN [instrs |-> <<inc, <<"Copy", target_temp_name[2], TVar(ident)>> >>,
             org |-> Paths(2, path),
             val |-> TVar(target_temp_name[2]),
             st |-> st]
       ELSE [instrs |-> <<inc>>, org |-> Paths(1, path), val |-> TVar(ident), st |-> st]

gen_prefix_inc_tac(var, code_env, target_temp_name, st, path) ==
    gen_prefix_tac(var, code_env, target_temp_name, st, path, "Plus")

gen_prefix_dec_tac(var, code_env, target_temp_name, st, path) ==
    gen_prefix_tac(var, code_env, target_temp_name, st, path, "Minus")

\* a lowering of Expr::Assign that forgets the copy into the target
assign_result_no_copy(r, target_temp_name, temp_name_of_assignee, path) ==
    [instrs |-> r.instrs, org |-> r.org,
     val |-> IF is_some(target_temp_name) THEN TVar(target_temp_name[2])
             ELSE TVar(temp_name_of_assignee),
     st |-> r.st]

\* Expr::Assign, after the right-hand side r was lowered into the assignee
assign_result(r, target_temp_name, temp_name_of_assignee, path) ==
    IF is_some(target_temp_name)
    THEN [instrs |-> Append(r.instrs, <<"Copy", target_temp_name[2], r.val>>),
          org |-> Append(r.org, path),
          val |-> TVar(target_temp_name[2]),
          st |-> r.st]
    ELSE [instrs |-> r.instrs, org |-> r.org,
          val |-> TVar(temp_name_of_assignee), st |-> r.st]

\* a lowering that emits the right operand's instructions first
binop_result_right_first(r1, r2, final_temp_name, op, path) ==
    [instrs |-> Append(r2.instrs \o r1.instrs,
                       <<"BinOp", final_temp_name, r1.val, r2.val, op>>),
     org |-> Append(r2.org \o r1.org, path),
     val |-> TVar(final_temp_name),
     st |-> r2.st]

\* generate_binop_tac: the operands' instructions, then the BinOp
binop_result(r1, r2, final_temp_name, op, path) ==
    [instrs |-> Append(r1.instrs \o r2.instrs,
                       <<"BinOp", final_temp_name, r1.val, r2.val, op>>),
     org |-> Append(r1.org \o r2.org, path),
     val |-> TVar(final_temp_name),
     st |-> r2.st]

\* an && that jumps when its left operand is non-zero
and_jump_inverted(label_and_false, lhs_val) == <<"JmpNotZero", label_and_false, lhs_val>>

\* the conditional jump after the left operand of && and of ||
and_jump(label_and_false, lhs_val) == <<"JmpZero", label_and_false, lhs_val>>
or_jump(label_or_true, lhs_val) == <<"JmpNotZero", label_or_true, lhs_val>>

\* a result that is the right operand's value itself
rhs_copied(final_temp_name, rhs_val) == <<"Copy", final_temp_name, rhs_val>>

\* the result when the right operand was evaluated
rhs_not_equals_zero(final_temp_name, rhs_val) ==
    <<"BinOp", final_temp_name, rhs_val, Lit(0, final_temp_name[2]), "NotEquals">>

\* the result when the left operand decided
and_false_copy(final_temp_name) == <<"Copy", final_temp_name, Lit(0, final_temp_name[2])>>
or_true_copy(final_temp_name) == <<"Copy", final_temp_name, Lit(1, final_temp_name[2])>>

RECURSIVE generate_expr_tac(_, _, _, _, _, _)
RECURSIVE generate_binop_tac(_, _, _, _, _, _, _, _)
RECURSIVE generate_short_circuiting_tac(_, _, _, _, _, _, _, _)
RECURSIVE generate_ternary_tac(_, _, _, _, _, _, _, _)
RECURSIVE gen_function_call_args(_, _, _, _, _, _)
RECURSIVE gen_function_call_tac(_, _, _, _, _, _)

generate_expr_tac(expr, code_env, target_temp_name, suggested_size, st, path) ==
    CASE expr[1] = "Var" ->
            LET ident == resolve_variable_to_temp_name(expr[2], code_env)
            IN IF is_some(target_temp_name)
               THEN [instrs |-> << <<"Copy", target_temp_name[2], TVar(ident)>> >>,
                     org |-> Paths(1, path),
                     val |-> TVar(target_temp_name[2]),
                     st |-> st]
               ELSE [instrs |-> << >>, org |-> << >>, val |-> TVar(ident), st |-> st]
      [] expr[1] = "Assign" ->
            LET temp_name_of_assignee == resolve_variable_to_temp_name(expr[2], code_env)
                r == generate_expr_tac(expr[3], code_env, Some(temp_name_of_assignee),
                                       Some(temp_name_of_assignee[2]), st, path \o <<3>>)
            IN assign_result(r, target_temp_name, temp_name_of_assignee, path)
      [] expr[1] = "Int" ->
            IF is_some(target_temp_name)
            THEN [instrs |-> << <<"Copy", target_temp_name[2],
                                  Lit(expr[2], target_temp_name[2][2])>> >>,
                  org |-> Paths(1, path),
                  val |-> TVar(target_temp_name[2]),
                  st |-> st]
            ELSE [instrs |-> << >>, org |-> << >>,
                  val |-> Lit(expr[2], unwrap_or_default(suggested_size)), st |-> st]
      [] expr[1] = "UnOp" ->
            LET ft == final_temp(target_temp_name,
                                 unwrap_or(get_expr_size(expr[3], code_env),
                                           unwrap_or_default(suggested_size)), st)
                r == generate_expr_tac(expr[3], code_env, None, suggested_size, ft.st,
                                       path \o <<3>>)
            IN [instrs |-> Append(r.instrs, <<"UnOp", ft.id, r.val, expr[2]>>),
                org |-> Append(r.org, path),
                val |-> TVar(ft.id),
                st |-> r.st]
      [] expr[1] = "BinOp" ->
            generate_binop_tac(expr[2], expr[3], expr[4], code_env, target_temp_name,
                               suggested_size, st, path)
      [] expr[1] = "Ternary" ->
            generate_ternary_tac(expr[2], expr[3], expr[4], code_env, target_temp_name,
                                 suggested_size, st, path)
      [] expr[1] = "PostfixInc" ->
            gen_postfix_inc_tac(expr[2], code_env, target_temp_name, st, path)
      [] expr[1] = "PostfixDec" ->
            gen_postfix_dec_tac(expr[2], code_env, target_temp_name, st, path)
      [] expr[1] = "PrefixInc" ->
            gen_prefix_inc_tac(expr[2], code_env, target_temp_name, st, path)
      [] expr[1] = "PrefixDec" ->
            gen_prefix_dec_tac(expr[2], code_env, target_temp_name, st, path)
      [] expr[1] = "FunctionCall" ->
            gen_function_call_tac(expr[2], expr[3], code_env, target_temp_name, st, path)

generate_binop_tac(op, expr1, expr2, code_env, target_temp_name, suggested_size, st, path) ==
    IF op = "LogicalAnd" \/ op = "LogicalOr"
    THEN generate_short_circuiting_tac(op, expr1, expr2, code_env, target_temp_name,
                                       suggested_size, st, path)
    ELSE
    LET ft == final_temp(target_temp_name,
                         unwrap_or(get_bigger_size(get_expr_size(expr1, code_env),
                                                   get_expr_size(expr2, code_env)),
                                   unwrap_or_default(suggested_size)), st)
        r1 == generate_expr_tac(expr1, code_env, None, suggested_size, ft.st, path \o <<3>>)
        r2 == generate_expr_tac(expr2, code_env, None, suggested_size, r1.st, path \o <<4>>)
    IN binop_result(r1, r2, ft.id, op, path)

generate_short_circuiting_tac(op, expr1, expr2, code_env, target_temp_name, suggested_size, st, path) ==
    LET ft == final_temp(target_temp_name,
                         unwrap_or(get_bigger_size(get_expr_size(expr1, code_env),
                                                   get_expr_size(expr2, code_env)),
                                   unwrap_or_default(suggested_size)), st)
        final_temp_name == ft.id
        ln == get_new_label_number(ft.st)
        lhs == generate_expr_tac(expr1, code_env, None, None, ln.st, path \o <<3>>)
        rhs == generate_expr_tac(expr2, code_env, None, None, lhs.st, path \o <<4>>)
    IN IF op = "LogicalAnd"
       THEN LET label_and_false == label_text("label_and_false_", ln.n)
                label_and_end == label_text("label_and_end_", ln.n)
            IN [instrs |-> lhs.instrs
                             \o <<and_jump(label_and_false, lhs.val)>>
                             \o rhs.instrs
                             \o << rhs_not_equals_zero(final_temp_name, rhs.val),
                                   <<"Jmp", label_and_end>>,
                                   <<"Label", label_and_false>>,
                                   and_false_copy(final_temp_name),
                                   <<"Label", label_and_end>> >>,
                org |-> lhs.org \o <<path>> \o rhs.org \o Paths(5, path),
                val |-> TVar(final_temp_name),
                st |-> rhs.st]
       ELSE LET label_or_true == label_text("label_or_true_", ln.n)
                label_or_end == label_text("label_or_end_", ln.n)
            IN [instrs |-> lhs.instrs
                             \o <<or_jump(label_or_true, lhs.val)>>
                             \o rhs.instrs
                             \o << rhs_not_equals_zero(final_temp_name, rhs.val),
                                   <<"Jmp", label_or_end>>,
                                   <<"Label", label_or_true>>,
                                   or_true_copy(final_temp_name),
                                   <<"Label", label_or_end>> >>,
                org |-> lhs.org \o <<path>> \o rhs.org \o Paths(5, path),
                val |-> TVar(final_temp_name),
                st |-> rhs.st]

\* the jump of a ternary taken on a non-zero decision
ternary_jump_inverted(label_false, decision_val) == <<"JmpNotZero", label_false, decision_val>>

\* the jump of a ternary to its else-branch: taken when the decision is zero
ternary_jump(label_false, decision_val) == <<"JmpZero", label_false, decision_val>>

generate_ternary_tac(decision_expr, expr1, expr2, code_env, target_temp_name, suggested_size, st, path) ==
    LET ft == final_temp(target_temp_name,
                         unwrap_or(get_bigger_size(get_expr_size(expr1, code_env),
                                                   get_expr_size(expr2, code_env)),
                                   unwrap_or_default(suggested_size)), st)
        final_temp_name == ft.id
        ln == get_new_label_number(ft.st)
        label_false == label_text("label_ternary_false_", ln.n)
        label_end == label_text("label_ternary_end_", ln.n)
        d == generate_expr_tac(decision_expr, code_env, None, None, ln.st, path \o <<2>>)
        r1 == generate_expr_tac(expr1, code_env, Some(final_temp_name),
                                Some(final_temp_name[2]), d.st, path \o <<3>>)
        r2 == generate_expr_tac(expr2, code_env, Some(final_temp_name),
                                Some(final_temp_name[2]), r1.st, path \o <<4>>)
    IN [instrs |-> d.instrs
                     \o << ternary_jump(label_false, d.val) >>
                     \o r1.instrs
                     \o << <<"Jmp", label_end>>, <<"Label", label_false>> >>
                     \o r2.instrs
                     \o << <<"Label", label_end>> >>,
        org |-> d.org \o <<path>> \o r1.org \o <<path, path>> \o r2.org \o <<path>>,
        val |-> TVar(final_temp_name),
        st |-> r2.st]

\* the "for arg_expr in args" loop of gen_function_call_tac, from argument i on
gen_function_call_args(args, i, code_env, st, path, acc) ==
    IF i > Len(args) THEN [acc EXCEPT !.st = st]
    ELSE LET r == generate_expr_tac(args[i], code_env, None, None, st, path \o <<3, i>>)
         IN gen_function_call_args(args, i + 1, code_env, r.st, path,
                                   [instrs |-> acc.instrs \o r.instrs,
                                    org |-> acc.org \o r.org,
                                    arg_vals |-> Append(acc.arg_vals, r.val),
                                    st |-> r.st])

gen_function_call_tac(func_ident, args, code_env, target_temp_name, st, path) ==
    LET ft == final_temp(target_temp_name, VarSizeDefault, st)
        a == gen_function_call_args(args, 1, code_env, ft.st, path,
                                    [instrs |-> << >>, org |-> << >>,
                                     arg_vals |-> << >>, st |-> ft.st])
    IN [instrs |-> Append(a.instrs, <<"Call", func_ident, a.arg_vals, Some(ft.id)>>),
        org |-> Append(a.org, path),
        val |-> TVar(ft.id),
        st |-> a.st]

---------------------------------------------------------------------------
(* AST-to-TAC lowering of statements.                                      *)
(*   Statement <<"Return", e>>, <<"Declare", n, optexpr, size>>,           *)
(*             <<"Expr", e>>, <<"If", c, then, optelse>>,                  *)
(*             <<"While", c, body>>, <<"For", init, optcond, optpost, b>>, *)
(*             <<"CompoundStmt", stmts>>, <<"Break">>, <<"Continue">>,     *)
(*             <<"Empty">>                                                 *)
(* code_env maps the names in scope to their identifiers; loop is the top  *)
(* of the loop stack, Some(<<continue label, break label>>) inside a loop. *)
(* A lowering returns [instrs, env, st, ok]: ok is FALSE for a break or    *)
(* continue outside a loop.                                                *)

bind(code_env, name, ident) ==
    [n \in DOMAIN code_env \cup {name} |-> IF n = name THEN ident ELSE code_env[n]]

\* what a statement with sub-statements is lowered as, in order. A part is a
\* statement or one of
\*   <<"Emit", instr>>               the instruction itself
\*   <<"CondJump", e, label>>        e lowered without target, then JmpZero(label, val)
\*   <<"Body", stmt, continue, break>>  stmt with (continue, break) on the loop stack
statement_parts(stmt, k) ==
    LET num(prefix) == label_text(prefix, k)
        emit(instr) == <<"Emit", instr>>
    IN
    CASE stmt[1] = "If" ->
            LET label_end == num("label_if_end_")
                label_else == IF is_some(stmt[4]) THEN num("label_if_else_") ELSE label_end
            IN << <<"CondJump", stmt[2], label_else>>, stmt[3] >>
               \o (IF is_some(stmt[4])
                   THEN << emit(<<"Jmp", label_end>>), emit(<<"Label", label_else>>),
                           stmt[4][2] >>
                   ELSE << >>)
               \o << emit(<<"Label", label_end>>) >>
      [] stmt[1] = "While" ->
            LET label_start == num("label_while_start_")
                label_end == num("label_while_end_")
            IN << emit(<<"Label", label_start>>),
                  <<"CondJump", stmt[2], label_end>>,
                  <<"Body", stmt[3], label_start, label_end>>,
                  emit(<<"Jmp", label_start>>),
                  emit(<<"Label", label_end>>) >>
      [] stmt[1] = "For" ->
            LET label_start == num("label_for_start_")
                label_post == num("label_for_post_")
                label_end == num("label_for_end_")
            IN << stmt[2], emit(<<"Label", label_start>>) >>
               \o (IF is_some(stmt[3]) THEN << <<"CondJump", stmt[3][2], label_end>> >>
                   ELSE << >>)
               \o << <<"Body", stmt[5], label_post, label_end>>,
                     emit(<<"Label", label_post>>) >>
               \o (IF is_some(stmt[4]) THEN << <<"Expr", stmt[4][2]>> >> ELSE << >>)
               \o << emit(<<"Jmp", label_start>>), emit(<<"Label", label_end>>) >>
      [] stmt[1] = "CompoundStmt" -> stmt[2]
      [] stmt[1] = "Body" -> <<stmt[2]>>

RECURSIVE generate_statement_tac(_, _, _, _)
RECURSIVE generate_compound_tac(_, _, _, _, _)

generate_statement_tac(stmt, code_env, loop, st) ==
    LET plain(instrs, st2) == [instrs |-> instrs, env |-> code_env, st |-> st2, ok |-> TRUE]
    IN
    CASE stmt[1] \in {"Return", "Expr", "CondJump"} ->
            LET r == generate_expr_tac(stmt[2], code_env, None, None, st, << >>)
            IN plain(r.instrs \o (CASE stmt[1] = "Return" -> << <<"Exit", r.val>> >>
                                    [] stmt[1] = "CondJump" -> << <<"JmpZero", stmt[3], r.val>> >>
                                    [] stmt[1] = "Expr" -> << >>),
                     r.st)
      [] stmt[1] = "Declare" ->
            LET t == get_new_temp_name(stmt[4], st)
                env2 == bind(code_env, stmt[2], t.id)
            IN IF is_some(stmt[3])
               THEN LET r == generate_expr_tac(stmt[3][2], env2, Some(t.id), Some(stmt[4]),
                                               t.st, << >>)
                    IN [instrs |-> r.instrs, env |-> env2, st |-> r.st, ok |-> TRUE]
               ELSE [instrs |-> << >>, env |-> env2, st |-> t.st, ok |-> TRUE]
      [] stmt[1] \in {"If", "While", "For", "CompoundStmt", "Body"} ->
            LET ln == IF stmt[1] \in {"If", "While", "For"} THEN get_new_label_number(st)
                      ELSE [n |-> 0, st |-> st]
                r == generate_compound_tac(statement_parts(stmt, ln.n), 1, code_env,
                                           IF stmt[1] = "Body" THEN Some(<<stmt[3], stmt[4]>>)
                                           ELSE loop,
                                           ln.st)
            IN [r EXCEPT !.env = code_env]
      [] stmt[1] = "Emit" -> plain(<<stmt[2]>>, st)
      [] stmt[1] = "Break" ->
            IF is_some(loop) THEN plain(<< <<"Jmp", loop[2][2]>> >>, st)
            ELSE [instrs |-> << >>, env |-> code_env, st |-> st, ok |-> FALSE]
      [] stmt[1] = "Continue" ->
            IF is_some(loop) THEN plain(<< <<"Jmp", loop[2][1]>> >>, st)
            ELSE [instrs |-> << >>, env |-> code_env, st |-> st, ok |-> FALSE]
      [] stmt[1] = "Empty" -> plain(<< >>, st)

\* the statements of a block from the i-th on, each in the scope the earlier ones left
generate_compound_tac(stmts, i, code_env, loop, st) ==
    IF i > Len(stmts) THEN [instrs |-> << >>, env |-> code_env, st |-> st, ok |-> TRUE]
    ELSE LET r == generate_statement_tac(stmts[i], code_env, loop, st)
             rest == generate_compound_tac(stmts, i + 1, r.env, loop, r.st)
         IN [instrs |-> r.instrs \o rest.instrs, env |-> rest.env, st |-> rest.st,
             ok |-> r.ok /\ rest.ok]

\* the TAC of the program's one function
generate_tac(body, st) == generate_statement_tac(<<"CompoundStmt", body>>, << >>, None, st)

---------------------------------------------------------------------------
(* What an instruction reads and writes. *)

val_identifiers(v) == IF v[1] = "Var" THEN {v[2]} ELSE {}

get_read_identifiers(instr) ==
    CASE instr[1] \in {"Exit"} -> val_identifiers(instr[2])
      [] instr[1] = "BinOp" -> val_identifiers(instr[3]) \cup val_identifiers(instr[4])
      [] instr[1] \in {"UnOp", "Copy", "JmpZero", "JmpNotZero"} -> val_identifiers(instr[3])
      [] instr[1] = "Call" ->
            UNION {val_identifiers(instr[3][i]) : i \in 1..Len(instr[3])}
      [] instr[1] = "DerefStore" -> {instr[2]} \cup val_identifiers(instr[3])
      [] OTHER -> {}

get_written_identifier(instr) ==
    CASE instr[1] \in {"BinOp", "UnOp", "Copy"} -> Some(instr[2])
      [] instr[1] = "Call" -> instr[4]
      [] OTHER -> None

---------------------------------------------------------------------------
(* The meaning of a TAC list: an interpreter that executes one instruction *)
(* per step.  env maps every identifier written so far to its value.       *)

\* index of the Label instruction a jump to l lands on
label_index(list, l) ==
    CHOOSE i \in 1..Len(list) :
        /\ list[i] = <<"Label", l>>
        /\ \A j \in 1..(i - 1) : list[j] # <<"Label", l>>

tac_val(v, env) == IF v[1] = "Lit" THEN v[2] ELSE env[v[2]]

\* the instruction at pc executed in env: the next pc, the next env and how
\* the run goes on ("run"), ends ("exit", with its status) or stops
tac_exec(list, pc, env) ==
    LET instr == list[pc]
        next == [pc |-> pc + 1, env |-> env, how |-> "run", status |-> 0]
        write(d, v) == [next EXCEPT !.env = [i \in DOMAIN env \cup {d} |->
                                                IF i = d THEN v ELSE env[i]]]
    IN IF ~(get_read_identifiers(instr) \subseteq DOMAIN env)
       THEN [next EXCEPT !.how = "undefined_read", !.pc = pc]
       ELSE
       CASE instr[1] = "Exit" ->
                [next EXCEPT !.how = "exit", !.status = tac_val(instr[2], env) % 256]
         [] instr[1] = "BinOp" ->
                IF instr[5] \in {"Divide", "Modulus"} /\ tac_val(instr[4], env) = 0
                THEN [next EXCEPT !.how = "divide_error", !.pc = pc]
                ELSE write(instr[2], ApplyBinOp(instr[5], tac_val(instr[3], env),
                                                tac_val(instr[4], env)))
         [] instr[1] = "UnOp" -> write(instr[2], ApplyUnOp(instr[4], tac_val(instr[3], env)))
         [] instr[1] = "Copy" -> write(instr[2], tac_val(instr[3], env))
         [] instr[1] = "Label" -> next
         [] instr[1] = "Jmp" -> [next EXCEPT !.pc = label_index(list, instr[2])]
         [] instr[1] = "JmpZero" ->
                IF tac_val(instr[3], env) = 0
                THEN [next EXCEPT !.pc = label_index(list, instr[2])]
                ELSE next
         [] instr[1] = "JmpNotZero" ->
                IF tac_val(instr[3], env) # 0
                THEN [next EXCEPT !.pc = label_index(list, instr[2])]
                ELSE next
         [] OTHER -> [next EXCEPT !.how = "external_call", !.pc = pc]

---------------------------------------------------------------------------
(* The allocator: every identifier gets a stack slot. *)

Mem(offset) == <<"Mem", offset>>
Reg(r) == <<"Reg", r>>

Contains(seq, x) == \E i \in 1..Len(seq) : seq[i] = x

\* the check with the instruction's own destination counted as seen
reads_present_or_written(instr, set_of_temporaries) ==
    \A ident \in get_read_identifiers(instr) :
        \/ Contains(set_of_temporaries, ident)
        \/ get_written_identifier(instr) = Some(ident)

\* "for i in instr.get_read_identifiers() { if !set_of_temporaries.contains(&i) { panic } }"
reads_present(instr, set_of_temporaries) ==
    \A ident \in get_read_identifiers(instr) : Contains(set_of_temporaries, ident)

\* the first loop of RegisterAllocator::new from instruction i on: the list
\* of written identifiers, or the panic on a read of an unseen identifier
RECURSIVE collect_temporaries(_, _, _)
collect_temporaries(tac_instrs, i, set_of_temporaries) ==
    IF i > Len(tac_instrs) THEN [panic |-> FALSE, temps |-> set_of_temporaries]
    ELSE IF ~reads_present(tac_instrs[i], set_of_temporaries)
    THEN [panic |-> TRUE, temps |-> set_of_temporaries]
    ELSE LET w == get_written_identifier(tac_instrs[i])
         IN collect_temporaries(tac_instrs, i + 1,
                IF is_some(w) THEN Append(set_of_temporaries, w[2]) ELSE set_of_temporaries)

\* the second loop with Mem(index * 4), the first entry at offset 0
location_map_from_zero(set_of_temporaries) ==
    [t \in {set_of_temporaries[i] : i \in 1..Len(set_of_temporaries)} |->
        LET last == CHOOSE i \in 1..Len(set_of_temporaries) :
                        /\ set_of_temporaries[i] = t
                        /\ \A j \in (i + 1)..Len(set_of_temporaries) :
                                set_of_temporaries[j] # t
        IN Mem((last - 1) * 4)]

\* the second loop: map.insert(t, Mem((index + 1) * 4)) for each entry in turn,
\* a later insert of the same identifier replacing the earlier one
location_map(set_of_temporaries) ==
    [t \in {set_of_temporaries[i] : i \in 1..Len(set_of_temporaries)} |->
        LET last == CHOOSE i \in 1..Len(set_of_temporaries) :
                        /\ set_of_temporaries[i] = t
                        /\ \A j \in (i + 1)..Len(set_of_temporaries) :
                                set_of_temporaries[j] # t
        IN Mem(last * 4)]

RegisterAllocator_new(tac_instrs) ==
    LET c == collect_temporaries(tac_instrs, 1, << >>)
    IN [panic |-> c.panic,
        map |-> IF c.panic THEN << >> ELSE location_map(c.temps),
        bytes_needed |-> IF c.panic THEN 0 ELSE 4 * Len(c.temps)]

get_location(map, temporary) == map[temporary]

---------------------------------------------------------------------------
(* TAC-to-x86.                                                             *)
(*   X86Instr <<"Push", reg>>, <<"Pop", reg>>, <<"Mov", dst, src>>,        *)
(*            <<"MovImm", dst, imm>>, <<"Add", dst, src>>,                 *)
(*            <<"Sub", dst, src>>, <<"IMul", dst, src>>,                   *)
(*            <<"SubImm", dst, imm>>, <<"Cdq">>, <<"Idiv", src>>,          *)
(*            <<"Label", name>>, <<"Jmp", label>>, <<"JmpCC", label, cc>>, *)
(*            <<"SetCC", dst, cc>>, <<"Test", src>>, <<"Cmp", l, r>>,      *)
(*            <<"Not", dst>>, <<"Neg", dst>>, <<"Call", name>>,            *)
(*            <<"Syscall">>                                                *)
(*   Location <<"Reg", r>>, <<"Mem", offset from rbp>>                     *)

gen_load_val_code(val, reg, map) ==
    IF val[1] = "Lit" THEN << <<"MovImm", Reg(reg), val[2]>> >>
    ELSE << <<"Mov", Reg(reg), get_location(map, val[2])>> >>

binop_ccode(op) ==
    CASE op = "Equals" -> "E"
      [] op = "NotEquals" -> "NE"
      [] op = "LessThan" -> "L"
      [] op = "LessThanEq" -> "LE"
      [] op = "GreaterThan" -> "G"
      [] op = "GreaterThanEq" -> "GE"

gen_binop_code(dst_ident, val1, val2, op, map) ==
    LET store(reg) == << <<"Mov", get_location(map, dst_ident), Reg(reg)>> >>
        arith(name) == gen_load_val_code(val1, "Rdi", map) \o gen_load_val_code(val2, "Rsi", map)
                       \o << <<name, "Rdi", "Rsi">> >> \o store("Rdi")
        divide(reg) == gen_load_val_code(val1, "Rax", map) \o << <<"Cdq">> >>
                       \o gen_load_val_code(val2, "Rdi", map)
                       \o << <<"Idiv", "Rdi">> >> \o store(reg)
    IN CASE op = "Plus" -> arith("Add")
         [] op = "Minus" -> arith("Sub")
         [] op = "Multiply" -> arith("IMul")
         [] op = "Divide" -> divide("Rax")
         [] op = "Modulus" -> divide("Rdx")
         [] OTHER ->
               gen_load_val_code(val1, "Rdi", map) \o gen_load_val_code(val2, "Rsi", map)
               \o << <<"Cmp", "Rdi", "Rsi">>,
                     <<"MovImm", Reg("Rdi"), 0>>,
                     <<"SetCC", "Rdi", binop_ccode(op)>> >>
               \o store("Rdi")

gen_unop_code(dst_ident, val, op, map) ==
    gen_load_val_code(val, "Rdi", map)
    \o (CASE op = "Negation" -> << <<"Neg", "Rdi">> >>
          [] op = "BitwiseComplement" -> << <<"Not", "Rdi">> >>
          [] op = "Not" -> << <<"Test", "Rdi">>,
                              <<"MovImm", Reg("Rdi"), 0>>,
                              <<"SetCC", "Rdi", "E">> >>)
    \o << <<"Mov", get_location(map, dst_ident), Reg("Rdi")>> >>

ArgRegs == <<"Rdi", "Rsi", "Rdx", "Rcx", "R8", "R9">>

RECURSIVE load_args(_, _, _)
load_args(args, i, map) ==
    IF i > Len(args) \/ i > Len(ArgRegs) THEN << >>
    ELSE gen_load_val_code(args[i], ArgRegs[i], map) \o load_args(args, i + 1, map)

generate_function_call_code(function_name, args, optional_ident, map) ==
    load_args(args, 1, map) \o << <<"Call", function_name>> >>
    \o (IF is_some(optional_ident)
        THEN << <<"Mov", get_location(map, optional_ident[2]), Reg("Rax")>> >>
        ELSE << >>)

\* the exit system call with the number 60 moved through rdi
exit_syscall_through_rdi ==
    << <<"MovImm", Reg("Rdi"), 60>>, <<"Mov", Reg("Rax"), Reg("Rdi")>>, <<"Syscall">> >>

\* the exit system call that first tears the frame down
exit_syscall_leaving_frame ==
    << <<"Mov", Reg("Rsp"), Reg("Rbp")>>, <<"Pop", "Rbp">>,
       <<"MovImm", Reg("Rax"), 60>>, <<"Syscall">> >>

\* the exit system call after the status was loaded: rax := 60, syscall
exit_syscall == << <<"MovImm", Reg("Rax"), 60>>, <<"Syscall">> >>

gen_x86_for_tac(instr, map) ==
    CASE instr[1] = "Exit" -> gen_load_val_code(instr[2], "Rdi", map) \o exit_syscall
      [] instr[1] = "BinOp" -> gen_binop_code(instr[2], instr[3], instr[4], instr[5], map)
      [] instr[1] = "UnOp" -> gen_unop_code(instr[2], instr[3], instr[4], map)
      [] instr[1] = "Copy" ->
            gen_load_val_code(instr[3], "Rdi", map)
            \o << <<"Mov", get_location(map, instr[2]), Reg("Rdi")>> >>
      [] instr[1] = "Label" -> << <<"Label", instr[2]>> >>
      [] instr[1] = "Jmp" -> << <<"Jmp", instr[2]>> >>
      [] instr[1] = "JmpZero" ->
            gen_load_val_code(instr[3], "Rdi", map)
            \o << <<"Test", "Rdi">>, <<"JmpCC", instr[2], "E">> >>
      [] instr[1] = "JmpNotZero" ->
            gen_load_val_code(instr[3], "Rdi", map)
            \o << <<"Test", "Rdi">>, <<"JmpCC", instr[2], "NE">> >>
      [] instr[1] = "Call" ->
            generate_function_call_code(instr[2], instr[3], instr[4], map)

prologue(num_bytes) ==
    << <<"Push", "Rbp">>, <<"Mov", Reg("Rbp"), Reg("Rsp")>>, <<"SubImm", "Rsp", num_bytes>> >>

epilogue == << <<"Mov", Reg("Rsp"), Reg("Rbp")>>, <<"Pop", "Rbp">> >>

\* the "for instr in tac_instrs" loop of generate_x86_code from instruction i on:
\* the x86 instructions and, for each, the index of its TAC instruction
RECURSIVE gen_x86_body(_, _, _)
gen_x86_body(tac_instrs, i, map) ==
    IF i > Len(tac_instrs) THEN [code |-> << >>, from |-> << >>]
    ELSE LET c == gen_x86_for_tac(tac_instrs[i], map)
             rest == gen_x86_body(tac_instrs, i + 1, map)
         IN [code |-> c \o rest.code, from |-> [k \in 1..Len(c) |-> i] \o rest.from]

\* the layout without an epilogue after a final Exit
x86_layout_exit_last(num_bytes, body) ==
    LET ends_in_exit == body.code # << >> /\ body.code[Len(body.code)] = <<"Syscall">>
    IN [code |-> prologue(num_bytes) \o body.code \o (IF ends_in_exit THEN << >> ELSE epilogue),
        from |-> <<0, 0, 0>> \o body.from \o (IF ends_in_exit THEN << >> ELSE <<0, 0>>)]

\* prologue, body, epilogue
x86_layout(num_bytes, body) ==
    [code |-> prologue(num_bytes) \o body.code \o epilogue,
     from |-> <<0, 0, 0>> \o body.from \o <<0, 0>>]

generate_x86_code(tac_instrs) ==
    LET a == RegisterAllocator_new(tac_instrs)
    IN IF a.panic
       THEN [panic |-> TRUE, map |-> a.map, bytes_needed |-> a.bytes_needed,
             code |-> << >>, from |-> << >>]
       ELSE LET r == x86_layout(a.bytes_needed, gen_x86_body(tac_instrs, 1, a.map))
            IN [panic |-> FALSE, map |-> a.map, bytes_needed |-> a.bytes_needed,
                code |-> r.code, from |-> r.from]

---------------------------------------------------------------------------
(* Lowering one expression and running its TAC.                            *)
(* The lexical environment holds two int variables, x and y; t is the      *)
(* temporary a caller may pass as the target.                              *)

IdentX == <<0, "Dword">>
IdentY == <<1, "Dword">>
IdentT == <<2, "Dword">>

\* before generate_x86_code ran
NotGenerated ==
    /\ reg_alloc = << >>
    /\ num_bytes_needed = 0
    /\ x86 = << >>
    /\ xorg = << >>

RegNames == {"Rax", "Rdi", "Rsi", "Rdx", "Rcx", "R8", "R9", "Rbp", "Rsp"}

\* before the emitted code runs
MachineOff ==
    /\ xpc = 1
    /\ regs = [r \in RegNames |-> 0]
    /\ mem = << >>
    /\ flags = <<0, 0>>
    /\ xsteps = 0
    /\ status = None

ExprEnv == [n \in {"x", "y"} |-> IF n = "x" THEN IdentX ELSE IdentY]

ExprInt(v) == <<"Int", v>>
ExprVar(n) == <<"Var", n>>
ExprAssign(n, e) == <<"Assign", n, e>>
ExprUnOp(op, e) == <<"UnOp", op, e>>
ExprBinOp(op, a, b) == <<"BinOp", op, a, b>>
ExprTernary(c, a, b) == <<"Ternary", c, a, b>>
ExprFunctionCall(f, args) == <<"FunctionCall", f, args>>

Atom == {ExprInt(v) : v \in 0..MaxLit} \cup {ExprVar("x"), ExprVar("y")}

IncDec == {<<k, "x">> : k \in {"PostfixInc", "PostfixDec", "PrefixInc", "PrefixDec"}}

\* operands of the one-level expressions
Operand == Atom \cup {ExprAssign("x", ExprInt(MaxLit)), <<"PostfixInc", "x">>, <<"PrefixDec", "y">>}

\* operands of the two-level expressions
Inner == {ExprVar("x"), ExprVar("y"), ExprInt(0), ExprAssign("y", ExprInt(MaxLit)),
          ExprBinOp("Divide", ExprInt(1), ExprVar("x")),
          ExprTernary(ExprVar("x"), ExprInt(MaxLit), <<"PostfixInc", "y">>)}
         \cup {ExprBinOp(op, a, b) : op \in {"LogicalAnd", "LogicalOr"},
                                 a \in {ExprVar("x"), ExprVar("y")},
                                 b \in {ExprVar("y"), ExprAssign("x", ExprInt(MaxLit))}}

ExprSet ==
    Atom \cup IncDec
    \cup {ExprAssign(n, e) : n \in {"x", "y"}, e \in Operand}
    \cup {ExprUnOp(op, e) : op \in {"Negation", "BitwiseComplement", "Not"}, e \in Operand}
    \cup {ExprBinOp(op, a, b) : op \in {"Plus", "Minus", "LessThan", "Divide",
                                    "LogicalAnd", "LogicalOr"},
                            a \in Operand, b \in Operand}
    \cup {ExprTernary(c, a, b) : c \in {ExprInt(0), ExprVar("x"), <<"PostfixDec", "x">>},
                             a \in Operand, b \in Operand}
    \cup {ExprFunctionCall("f", args) :
            args \in {<< >>} \cup {<<a>> : a \in Operand}
                     \cup {<<a, b>> : a \in Operand, b \in Operand}}
    \cup {ExprBinOp(op, a, b) : op \in {"LogicalAnd", "LogicalOr", "Plus"},
                            a \in Inner, b \in Inner}
    \cup {ExprTernary(c, a, b) : c \in Inner, a \in {ExprVar("y"), ExprAssign("x", ExprInt(0))},
                             b \in Inner}

InitExpr ==
    /\ phase = "parsed"
    /\ \E e \in ExprSet, target \in {None, Some(IdentT)},
          vx \in 0..MaxInit, vy \in {0, MaxInit + 1} :
            /\ input = [expr |-> e, target |-> target,
                        vals |-> [n \in {"x", "y"} |-> IF n = "x" THEN vx ELSE vy]]
            /\ tenv = [i \in {IdentX, IdentY} |-> IF i = IdentX THEN vx ELSE vy]
    /\ temp_counter = 3
    /\ label_counter = 0
    /\ tac = << >>
    /\ org = << >>
    /\ result_val = None
    /\ tpc = 1
    /\ tdone = {}
    /\ tobs = << >>
    /\ NotGenerated
    /\ MachineOff

\* generate_expr_tac on the chosen expression, with or without a target
LowerExpr ==
    /\ phase = "parsed"
    /\ LET r == generate_expr_tac(input.expr, ExprEnv, input.target, None,
                                  [t |-> temp_counter, l |-> label_counter], << >>)
       IN /\ tac' = r.instrs
          /\ org' = r.org
          /\ result_val' = Some(r.val)
          /\ temp_counter' = r.st.t
          /\ label_counter' = r.st.l
    /\ phase' = "lowered"
    /\ UNCHANGED <<input, tacvars, genvars, xvars>>

\* one instruction of the TAC list is executed
TacStep ==
    /\ phase = "lowered"
    /\ tpc <= Len(tac)
    /\ LET r == tac_exec(tac, tpc, tenv)
       IN /\ tpc' = r.pc
          /\ tenv' = r.env
          /\ tdone' = tdone \cup {tpc}
          /\ tobs' = IF tac[tpc][1] \in {"JmpZero", "JmpNotZero"}
                     THEN Append(tobs, <<tpc, tac_val(tac[tpc][3], tenv)>>)
                     ELSE tobs
          /\ phase' = IF r.how = "run" THEN "lowered" ELSE r.how
    /\ UNCHANGED <<input, lowvars, genvars, xvars>>

\* the run falls off the end of the list
TacEnd ==
    /\ phase = "lowered"
    /\ tpc = Len(tac) + 1
    /\ phase' = "tac_done"
    /\ UNCHANGED <<input, lowvars, tacvars, genvars, xvars>>

NextExpr == LowerExpr \/ TacStep \/ TacEnd

SpecExpr == InitExpr /\ [][NextExpr]_vars

---------------------------------------------------------------------------
(* The reference C semantics of an expression over the values of the       *)
(* source variables.  A result is [v, env, ok, rd, wr]: the value, the     *)
(* variables' values afterwards, whether C gives the expression a value,   *)
(* and the variables the evaluation read and wrote.  C gives no value to a *)
(* division by zero, to a read of a variable that holds no value, to an    *)
(* external call, and to an expression in which a write of a variable is   *)
(* unsequenced with another access to it (the operands of a binary         *)
(* operator other than && and ||, the two sides of an assignment); where   *)
(* it gives one, the operands are evaluated left to right.                 *)

RefUndefined(env) == [v |-> 0, env |-> env, ok |-> FALSE, rd |-> {}, wr |-> {}]

Unsequenced(r1, r2) ==
    \/ r1.wr \cap (r2.rd \cup r2.wr) # {}
    \/ r2.wr \cap (r1.rd \cup r1.wr) # {}

RefIncDec(n, env, delta, post) ==
    IF n \notin DOMAIN env THEN RefUndefined(env)
    ELSE [v |-> IF post THEN env[n] ELSE env[n] + delta,
          env |-> [env EXCEPT ![n] = @ + delta],
          ok |-> TRUE, rd |-> {n}, wr |-> {n}]

RECURSIVE RefEval(_, _)
RefEval(e, env) ==
    LET \* r2 evaluated after r1, both accesses counted
        after(r1, r2) == [r2 EXCEPT !.ok = r1.ok /\ r2.ok,
                                    !.rd = r1.rd \cup r2.rd, !.wr = r1.wr \cup r2.wr]
    IN
    CASE e[1] = "Int" -> [v |-> e[2], env |-> env, ok |-> TRUE, rd |-> {}, wr |-> {}]
      [] e[1] = "Var" ->
            IF e[2] \notin DOMAIN env THEN RefUndefined(env)
            ELSE [v |-> env[e[2]], env |-> env, ok |-> TRUE, rd |-> {e[2]}, wr |-> {}]
      [] e[1] = "Assign" ->
            LET r == RefEval(e[3], env)
            IN [v |-> r.v, env |-> bind(r.env, e[2], r.v),
                ok |-> r.ok /\ e[2] \notin r.wr, rd |-> r.rd, wr |-> r.wr \cup {e[2]}]
      [] e[1] = "UnOp" ->
            LET r == RefEval(e[3], env)
            IN [r EXCEPT !.v = ApplyUnOp(e[2], r.v)]
      [] e[1] = "BinOp" /\ e[2] = "LogicalAnd" ->
            LET r1 == RefEval(e[3], env)
                r2 == RefEval(e[4], r1.env)
            IN IF ~r1.ok \/ r1.v = 0 THEN [r1 EXCEPT !.v = 0]
               ELSE after(r1, [r2 EXCEPT !.v = Bool2Int(r2.v # 0)])
      [] e[1] = "BinOp" /\ e[2] = "LogicalOr" ->
            LET r1 == RefEval(e[3], env)
                r2 == RefEval(e[4], r1.env)
            IN IF ~r1.ok THEN r1
               ELSE IF r1.v # 0 THEN [r1 EXCEPT !.v = 1]
               ELSE after(r1, [r2 EXCEPT !.v = Bool2Int(r2.v # 0)])
      [] e[1] = "BinOp" /\ e[2] \notin {"LogicalAnd", "LogicalOr"} ->
            LET r1 == RefEval(e[3], env)
                r2 == RefEval(e[4], r1.env)
            IN IF \/ ~r1.ok \/ ~r2.ok \/ Unsequenced(r1, r2)
                  \/ (e[2] \in {"Divide", "Modulus"} /\ r2.v = 0)
               THEN RefUndefined(r2.env)
               ELSE after(r1, [r2 EXCEPT !.v = ApplyBinOp(e[2], r1.v, r2.v)])
      [] e[1] = "Ternary" ->
            LET c == RefEval(e[2], env)
            IN IF ~c.ok THEN c
               ELSE after(c, IF c.v # 0 THEN RefEval(e[3], c.env) ELSE RefEval(e[4], c.env))
      [] e[1] = "PostfixInc" -> RefIncDec(e[2], env, 1, TRUE)
      [] e[1] = "PostfixDec" -> RefIncDec(e[2], env, -1, TRUE)
      [] e[1] = "PrefixInc" -> RefIncDec(e[2], env, 1, FALSE)
      [] e[1] = "PrefixDec" -> RefIncDec(e[2], env, -1, FALSE)
      [] e[1] = "FunctionCall" -> RefUndefined(env)

---------------------------------------------------------------------------
(* The reference C semantics of statements.  A result is [env, ctl, v,     *)
(* fuel]: ctl is "next", "return" (with the value v), "break", "continue"  *)
(* or "undefined" (C gives the run no meaning, or it exceeds MaxLoop       *)
(* iterations).  saved holds, for the names a block declared, what they    *)
(* were bound to outside it.                                               *)

unbind(env, name) == [n \in DOMAIN env \ {name} |-> env[n]]

restore(env, saved) ==
    [n \in (DOMAIN env \ DOMAIN saved) \cup {m \in DOMAIN saved : is_some(saved[m])} |->
        IF n \in DOMAIN saved THEN saved[n][2] ELSE env[n]]

save(saved, env, name) ==
    IF name \in DOMAIN saved THEN saved
    ELSE bind(saved, name, IF name \in DOMAIN env THEN Some(env[name]) ELSE None)

RECURSIVE RefExec(_, _, _)
RECURSIVE RefBlock(_, _, _, _, _)
RECURSIVE RefLoop(_, _, _, _, _)

RefExec(stmt, env, fuel) ==
    LET out(env2, ctl, v) == [env |-> env2, ctl |-> ctl, v |-> v, fuel |-> fuel]
        of_expr(r, ctl) == out(r.env, IF r.ok THEN ctl ELSE "undefined", r.v)
    IN
    CASE stmt[1] = "Return" -> of_expr(RefEval(stmt[2], env), "return")
      [] stmt[1] = "Expr" -> of_expr(RefEval(stmt[2], env), "next")
      [] stmt[1] = "Declare" ->
            IF is_some(stmt[3])
            THEN LET r == RefEval(stmt[3][2], unbind(env, stmt[2]))
                 IN of_expr([r EXCEPT !.env = bind(r.env, stmt[2], r.v)], "next")
            ELSE out(unbind(env, stmt[2]), "next", 0)
      [] stmt[1] = "If" ->
            LET c == RefEval(stmt[2], env)
            IN IF ~c.ok THEN out(c.env, "undefined", 0)
               ELSE IF c.v # 0 THEN RefExec(stmt[3], c.env, fuel)
               ELSE IF is_some(stmt[4]) THEN RefExec(stmt[4][2], c.env, fuel)
               ELSE out(c.env, "next", 0)
      [] stmt[1] = "While" -> RefLoop(Some(stmt[2]), None, stmt[3], env, fuel)
      [] stmt[1] = "For" ->
            LET i == RefExec(stmt[2], env, fuel)
                saved == IF stmt[2][1] = "Declare" THEN save(<< >>, env, stmt[2][2]) ELSE << >>
                r == RefLoop(stmt[3], stmt[4], stmt[5], i.env, fuel)
            IN IF i.ctl # "next" THEN i ELSE [r EXCEPT !.env = restore(r.env, saved)]
      [] stmt[1] = "CompoundStmt" -> RefBlock(stmt[2], 1, env, << >>, fuel)
      [] stmt[1] = "Break" -> out(env, "break", 0)
      [] stmt[1] = "Continue" -> out(env, "continue", 0)
      [] stmt[1] = "Empty" -> out(env, "next", 0)

RefBlock(stmts, i, env, saved, fuel) ==
    IF i > Len(stmts)
    THEN [env |-> restore(env, saved), ctl |-> "next", v |-> 0, fuel |-> fuel]
    ELSE LET saved2 == IF stmts[i][1] = "Declare" THEN save(saved, env, stmts[i][2])
                       ELSE saved
             r == RefExec(stmts[i], env, fuel)
         IN IF r.ctl = "next" THEN RefBlock(stmts, i + 1, r.env, saved2, r.fuel)
            ELSE [r EXCEPT !.env = restore(r.env, saved2)]

\* a loop with an optional condition and an optional post expression
RefLoop(cond, post, body, env, fuel) ==
    IF fuel = 0 THEN [env |-> env, ctl |-> "undefined", v |-> 0, fuel |-> 0]
    ELSE
    LET c == IF is_some(cond) THEN RefEval(cond[2], env)
             ELSE [v |-> 1, env |-> env, ok |-> TRUE, rd |-> {}, wr |-> {}]
        b == RefExec(body, c.env, fuel - 1)
        q == IF is_some(post) THEN RefEval(post[2], b.env)
             ELSE [v |-> 0, env |-> b.env, ok |-> TRUE, rd |-> {}, wr |-> {}]
    IN IF ~c.ok THEN [env |-> c.env, ctl |-> "undefined", v |-> 0, fuel |-> fuel]
       ELSE IF c.v = 0 THEN [env |-> c.env, ctl |-> "next", v |-> 0, fuel |-> fuel]
       ELSE IF b.ctl \in {"return", "undefined"} THEN b
       ELSE IF b.ctl = "break" THEN [b EXCEPT !.ctl = "next"]
       ELSE IF ~q.ok THEN [env |-> q.env, ctl |-> "undefined", v |-> 0, fuel |-> b.fuel]
       ELSE RefLoop(cond, post, body, q.env, b.fuel)

\* the function's body run from its start
RefRun(body) == RefBlock(body, 1, << >>, << >>, MaxLoop)

---------------------------------------------------------------------------
(* The x86 machine: one instruction per step.  A memory cell is named by   *)
(* its address, Mem(k) being the cell at rbp - k; registers and cells hold *)
(* integers.  A read of a cell that nothing wrote yields the value garbage *)
(* the step was given, and the cell holds it from then on.                 *)

cc_holds(cc, f) ==
    CASE cc = "E" -> f[1] = f[2]
      [] cc = "NE" -> f[1] # f[2]
      [] cc = "L" -> f[1] < f[2]
      [] cc = "LE" -> f[1] <= f[2]
      [] cc = "G" -> f[1] > f[2]
      [] cc = "GE" -> f[1] >= f[2]

x86_label_index(code, l) ==
    CHOOSE i \in 1..Len(code) :
        /\ code[i] = <<"Label", l>>
        /\ \A j \in 1..(i - 1) : code[j] # <<"Label", l>>

x86_exec(code, pc, r, m, f, garbage) ==
    LET instr == code[pc]
        next == [pc |-> pc + 1, regs |-> r, mem |-> m, flags |-> f, how |-> "run",
                 status |-> None]
        stop(how) == [next EXCEPT !.pc = pc, !.how = how]
        addr(loc) == r["Rbp"] - loc[2]
        store(a, v) == [c \in DOMAIN m \cup {a} |-> IF c = a THEN v ELSE m[c]]
        \* a cell nothing wrote holds the garbage value, from then on
        cell(a) == IF a \in DOMAIN m THEN m[a] ELSE garbage
        touched(a) == IF a \in DOMAIN m THEN m ELSE store(a, garbage)
        set(reg, v) == [next EXCEPT !.regs = [r EXCEPT ![reg] = v]]
        jump(l) == [next EXCEPT !.pc = x86_label_index(code, l)]
    IN
    CASE instr[1] = "Push" ->
            [next EXCEPT !.regs = [r EXCEPT !["Rsp"] = @ - 8],
                         !.mem = store(r["Rsp"] - 8, r[instr[2]])]
      [] instr[1] = "Pop" ->
            [next EXCEPT !.regs = [r EXCEPT ![instr[2]] = cell(r["Rsp"]),
                                            !["Rsp"] = r["Rsp"] + 8],
                         !.mem = touched(r["Rsp"])]
      [] instr[1] = "Mov" ->
            IF instr[2][1] = "Reg" /\ instr[3][1] = "Reg"
            THEN set(instr[2][2], r[instr[3][2]])
            ELSE IF instr[2][1] = "Reg"
            THEN [next EXCEPT !.regs = [r EXCEPT ![instr[2][2]] = cell(addr(instr[3]))],
                              !.mem = touched(addr(instr[3]))]
            ELSE [next EXCEPT !.mem = store(addr(instr[2]), r[instr[3][2]])]
      [] instr[1] = "MovImm" -> set(instr[2][2], instr[3])
      [] instr[1] = "Add" -> set(instr[2], r[instr[2]] + r[instr[3]])
      [] instr[1] = "Sub" -> set(instr[2], r[instr[2]] - r[instr[3]])
      [] instr[1] = "IMul" -> set(instr[2], r[instr[2]] * r[instr[3]])
      [] instr[1] = "SubImm" -> set(instr[2], r[instr[2]] - instr[3])
      [] instr[1] = "Cdq" -> set("Rdx", IF r["Rax"] < 0 THEN -1 ELSE 0)
      [] instr[1] = "Idiv" ->
            IF r[instr[2]] = 0 THEN stop("x86_divide_error")
            ELSE [next EXCEPT !.regs = [r EXCEPT !["Rax"] = TruncDiv(r["Rax"], r[instr[2]]),
                                                 !["Rdx"] = TruncRem(r["Rax"], r[instr[2]])]]
      [] instr[1] = "Label" -> next
      [] instr[1] = "Jmp" -> jump(instr[2])
      [] instr[1] = "JmpCC" -> IF cc_holds(instr[3], f) THEN jump(instr[2]) ELSE next
      [] instr[1] = "SetCC" ->
            set(instr[2], (r[instr[2]] \div 256) * 256 + Bool2Int(cc_holds(instr[3], f)))
      [] instr[1] = "Test" -> [next EXCEPT !.flags = <<r[instr[2]], 0>>]
      [] instr[1] = "Cmp" -> [next EXCEPT !.flags = <<r[instr[2]], r[instr[3]]>>]
      [] instr[1] = "Not" -> set(instr[2], -r[instr[2]] - 1)
      [] instr[1] = "Neg" -> set(instr[2], -r[instr[2]])
      [] instr[1] = "Call" -> stop("x86_external_call")
      [] instr[1] = "Syscall" ->
            IF r["Rax"] = 60
            THEN [next EXCEPT !.pc = pc, !.how = "exit", !.status = Some(r["Rdi"] % 256)]
            ELSE stop("x86_other_syscall")

---------------------------------------------------------------------------
(* Whole programs: the body of main is lowered, the code generator runs on *)
(* the TAC list, and the emitted code is executed.                         *)

StmtReturn(e) == <<"Return", e>>
StmtDeclare(n, init) == <<"Declare", n, init, "Dword">>
StmtExpr(e) == <<"Expr", e>>
StmtIf(c, t, e) == <<"If", c, t, e>>
StmtWhile(c, body) == <<"While", c, body>>
StmtFor(init, cond, post, body) == <<"For", init, cond, post, body>>
StmtCompound(stmts) == <<"CompoundStmt", stmts>>

DeclInt(n, v) == StmtDeclare(n, Some(ExprInt(v)))
Set(n, e) == StmtExpr(ExprAssign(n, e))
Bin(op, a, b) == ExprBinOp(op, a, b)

\* the scenarios of the specification, in its order
Scenarios ==
    << \* int main() { return 0; }
       << StmtReturn(ExprInt(0)) >>,
       \* int main() { return 2 + 3 * 4; }
       << StmtReturn(Bin("Plus", ExprInt(2), Bin("Multiply", ExprInt(3), ExprInt(4)))) >>,
       \* int main() { int a = 5; int b = 7; return a < b ? a : b; }
       << DeclInt("a", 5), DeclInt("b", 7),
          StmtReturn(ExprTernary(Bin("LessThan", ExprVar("a"), ExprVar("b")),
                                 ExprVar("a"), ExprVar("b"))) >>,
       \* int main() { int x = 0; for (int i = 0; i < 10; i = i + 1) x = x + i; return x; }
       << DeclInt("x", 0),
          StmtFor(DeclInt("i", 0), Some(Bin("LessThan", ExprVar("i"), ExprInt(10))),
                  Some(ExprAssign("i", Bin("Plus", ExprVar("i"), ExprInt(1)))),
                  Set("x", Bin("Plus", ExprVar("x"), ExprVar("i")))),
          StmtReturn(ExprVar("x")) >>,
       \* int main() { int a = 0; int b = 1; int i = 0; while (i < 6) { int t = a + b;
       \*              a = b; b = t; i = i + 1; } return a; }
       << DeclInt("a", 0), DeclInt("b", 1), DeclInt("i", 0),
          StmtWhile(Bin("LessThan", ExprVar("i"), ExprInt(6)),
                    StmtCompound(<< StmtDeclare("t", Some(Bin("Plus", ExprVar("a"), ExprVar("b")))),
                                    Set("a", ExprVar("b")), Set("b", ExprVar("t")),
                                    Set("i", Bin("Plus", ExprVar("i"), ExprInt(1))) >>)),
          StmtReturn(ExprVar("a")) >>,
       \* int main() { int i = 3; return (i++) + (++i); }
       << DeclInt("i", 3),
          StmtReturn(Bin("Plus", <<"PostfixInc", "i">>, <<"PrefixInc", "i">>)) >>,
       \* int main() { return (0 && (1/0)) == 0; }
       << StmtReturn(Bin("Equals", Bin("LogicalAnd", ExprInt(0),
                                       Bin("Divide", ExprInt(1), ExprInt(0))),
                         ExprInt(0))) >> >>

\* the exit status the specification gives for each scenario
ScenarioStatus == <<0, 14, 5, 45, 8, 8, 1>>

\* int main() { int x = vx; int y = vy; return e; }
ExprProgram(e, vx, vy) == << DeclInt("x", vx), DeclInt("y", vy), StmtReturn(e) >>

\* programs of statements
StmtPrograms ==
    { \* int x; return x;
      << StmtDeclare("x", None), StmtReturn(ExprVar("x")) >>,
      \* int x; x = 2; return x;
      << StmtDeclare("x", None), Set("x", ExprInt(2)), StmtReturn(ExprVar("x")) >>,
      \* int x; for (int i = 0; i < 2; i = i + 1) { if (i) return x; x = 5; } return 0;
      << StmtDeclare("x", None),
         StmtFor(DeclInt("i", 0), Some(Bin("LessThan", ExprVar("i"), ExprInt(2))),
                 Some(ExprAssign("i", Bin("Plus", ExprVar("i"), ExprInt(1)))),
                 StmtCompound(<< StmtIf(ExprVar("i"), StmtReturn(ExprVar("x")), None),
                                 Set("x", ExprInt(5)) >>)),
         StmtReturn(ExprInt(0)) >>,
      \* int x = 0; while (1) { x = x + 1; if (x == 3) break; } return x;
      << DeclInt("x", 0),
         StmtWhile(ExprInt(1),
                   StmtCompound(<< Set("x", Bin("Plus", ExprVar("x"), ExprInt(1))),
                                   StmtIf(Bin("Equals", ExprVar("x"), ExprInt(3)),
                                          <<"Break">>, None) >>)),
         StmtReturn(ExprVar("x")) >>,
      \* int s = 0; for (int i = 0; i < 4; i++) { if (i == 2) continue; s = s + i; } return s;
      << DeclInt("s", 0),
         StmtFor(DeclInt("i", 0), Some(Bin("LessThan", ExprVar("i"), ExprInt(4))),
                 Some(<<"PostfixInc", "i">>),
                 StmtCompound(<< StmtIf(Bin("Equals", ExprVar("i"), ExprInt(2)),
                                        <<"Continue">>, None),
                                 Set("s", Bin("Plus", ExprVar("s"), ExprVar("i"))) >>)),
         StmtReturn(ExprVar("s")) >>,
      \* int x = 1; { int x = 2; x = x + 1; } ; return x;
      << DeclInt("x", 1),
         StmtCompound(<< DeclInt("x", 2), Set("x", Bin("Plus", ExprVar("x"), ExprInt(1))) >>),
         <<"Empty">>,
         StmtReturn(ExprVar("x")) >>,
      \* int x = 1; x = 2;
      << DeclInt("x", 1), Set("x", ExprInt(2)) >>,
      \* int x = 0; while (1) x = 1 - x;
      << DeclInt("x", 0),
         StmtWhile(ExprInt(1), Set("x", Bin("Minus", ExprInt(1), ExprVar("x")))) >>,
      \* int x; int y = 300; if (y) x = y; return x + 1;
      << StmtDeclare("x", None), DeclInt("y", 300),
         StmtIf(ExprVar("y"), Set("x", ExprVar("y")), None),
         StmtReturn(Bin("Plus", ExprVar("x"), ExprInt(1))) >> }
    \cup { \* int x = vx; int y; if (x) y = 1; else y = 2; return y;   (and without the else)
           << DeclInt("x", vx), StmtDeclare("y", None),
              StmtIf(ExprVar("x"), Set("y", ExprInt(1)), else), StmtReturn(ExprVar("y")) >> :
           vx \in 0..MaxInit, else \in {None, Some(Set("y", ExprInt(2)))} }

Programs ==
    {Scenarios[k] : k \in 1..Len(Scenarios)}
    \cup StmtPrograms
    \cup {ExprProgram(e, vx, MaxInit + 1) : e \in ExprSet, vx \in 0..MaxInit}

Init ==
    /\ phase = "parsed"
    /\ input \in Programs
    /\ temp_counter = 0
    /\ label_counter = 0
    /\ tac = << >>
    /\ org = << >>
    /\ result_val = None
    /\ tpc = 1
    /\ tenv = << >>
    /\ tdone = {}
    /\ tobs = << >>
    /\ NotGenerated
    /\ MachineOff

\* the body of main is lowered to TAC
LowerProgram ==
    /\ phase = "parsed"
    /\ LET r == generate_tac(input, [t |-> temp_counter, l |-> label_counter])
       IN /\ tac' = r.instrs
          /\ temp_counter' = r.st.t
          /\ label_counter' = r.st.l
          /\ phase' = IF r.ok THEN "lowered" ELSE "lowering_failed"
    /\ UNCHANGED <<input, org, result_val, tacvars, genvars, xvars>>

\* generate_x86_code on the TAC list: the allocator, then the emission
GenerateX86 ==
    /\ phase = "lowered"
    /\ LET g == generate_x86_code(tac)
       IN /\ reg_alloc' = g.map
          /\ num_bytes_needed' = g.bytes_needed
          /\ x86' = g.code
          /\ xorg' = g.from
          /\ phase' = IF g.panic THEN "panic" ELSE "generated"
    /\ UNCHANGED <<input, lowvars, tacvars, xvars>>

\* the machine executes one instruction of the emitted code
X86Step ==
    /\ phase = "generated"
    /\ xpc <= Len(x86)
    /\ xsteps < MaxSteps
    /\ \E garbage \in 0..MaxGarbage :
          LET r == x86_exec(x86, xpc, regs, mem, flags, garbage)
          IN /\ xpc' = r.pc
             /\ regs' = r.regs
             /\ mem' = r.mem
             /\ flags' = r.flags
             /\ status' = r.status
             /\ xsteps' = xsteps + 1
             /\ phase' = IF r.how = "run" THEN "generated" ELSE r.how
    /\ UNCHANGED <<input, lowvars, tacvars, genvars>>

\* the machine runs past the epilogue, or is followed no further
X86End ==
    /\ phase = "generated"
    /\ xpc > Len(x86) \/ xsteps = MaxSteps
    /\ phase' = IF xpc > Len(x86) THEN "fell_off" ELSE "x86_timeout"
    /\ UNCHANGED <<input, lowvars, tacvars, genvars, xvars>>

Next == LowerProgram \/ GenerateX86 \/ X86Step \/ X86End

Spec == Init /\ [][Next]_vars

---------------------------------------------------------------------------
(* The code generator on TAC lists given directly.                         *)

TacInstrs ==
    { <<"Copy", IdentX, Lit(1, "Dword")>>,
      <<"Copy", IdentY, TVar(IdentX)>>,
      <<"BinOp", IdentX, TVar(IdentX), Lit(1, "Dword"), "Plus">>,
      <<"BinOp", IdentY, TVar(IdentX), TVar(IdentY), "Minus">>,
      <<"Exit", Lit(MaxLit, "Dword")>>,
      <<"Exit", TVar(IdentX)>>,
      <<"Exit", TVar(IdentY)>>,
      <<"Label", "l">>,
      <<"Jmp", "l">>,
      <<"JmpZero", "l", TVar(IdentX)>>,
      <<"Call", "f", <<TVar(IdentY)>>, Some(IdentX)>> }

\* every jump has its label further down the list
JumpsForward(list) ==
    \A i \in 1..Len(list) :
        list[i][1] \in {"Jmp", "JmpZero"} =>
            \E j \in (i + 1)..Len(list) : list[j] = <<"Label", list[i][2]>>

TacLists ==
    {list \in UNION {[1..n -> TacInstrs] : n \in 0..MaxTacLen} : JumpsForward(list)}

InitTac ==
    /\ phase = "lowered"
    /\ tac \in TacLists
    /\ input = tac
    /\ temp_counter = 2
    /\ label_counter = 0
    /\ org = << >>
    /\ result_val = None
    /\ tpc = 1
    /\ tenv = << >>
    /\ tdone = {}
    /\ tobs = << >>
    /\ NotGenerated
    /\ MachineOff

NextTac == GenerateX86 \/ X86Step \/ X86End

SpecTac == InitTac /\ [][NextTac]_vars

---------------------------------------------------------------------------
(* Positions in an expression and the instructions generated from them. *)

IsPrefix(p, q) == Len(p) <= Len(q) /\ SubSeq(q, 1, Len(p)) = p

RECURSIVE SubExpr(_, _)
SubExpr(e, path) ==
    IF path = << >> THEN e
    ELSE IF e[1] = "FunctionCall" THEN SubExpr(e[3][path[2]], Tail(Tail(path)))
    ELSE SubExpr(e[path[1]], Tail(path))

RECURSIVE NodePaths(_)
NodePaths(e) ==
    LET under(prefix, sub) == {prefix \o q : q \in NodePaths(sub)}
    IN {<< >>} \cup
       CASE e[1] \in {"Assign", "UnOp"} -> under(<<3>>, e[3])
         [] e[1] = "BinOp" -> under(<<3>>, e[3]) \cup under(<<4>>, e[4])
         [] e[1] = "Ternary" ->
               under(<<2>>, e[2]) \cup under(<<3>>, e[3]) \cup under(<<4>>, e[4])
         [] e[1] = "FunctionCall" ->
               UNION {under(<<3, i>>, e[3][i]) : i \in 1..Len(e[3])}
         [] OTHER -> {}

\* the instructions generated from the sub-expression at path p
InstrsOf(p) == {i \in 1..Len(tac) : IsPrefix(p, org[i])}

\* the && and || nodes of the expression
ShortCircuitNodes ==
    {p \in NodePaths(input.expr) :
        /\ SubExpr(input.expr, p)[1] = "BinOp"
        /\ SubExpr(input.expr, p)[2] \in {"LogicalAnd", "LogicalOr"}}

\* the conditional jump node p pushed itself
JumpOf(p) ==
    CHOOSE i \in 1..Len(tac) : org[i] = p /\ tac[i][1] \in {"JmpZero", "JmpNotZero"}

\* the values the jump at i tested in this run
Observed(i) == {tobs[k][2] : k \in {k \in DOMAIN tobs : tobs[k][1] = i}}

\* the left operand of the && or || at p decided the result in this run
Decided(p) ==
    LET e == SubExpr(input.expr, p)
    IN \/ e[2] = "LogicalAnd" /\ 0 \in Observed(JumpOf(p))
       \/ e[2] = "LogicalOr" /\ \E v \in Observed(JumpOf(p)) : v # 0

\* C2: in a run of the TAC of an expression, once the left operand of an &&
\* was found zero, or the left operand of an || non-zero, no instruction
\* generated from that operator's right operand is executed, at any nesting.
C2_ShortCircuitSkipsRight ==
    phase \in {"lowered", "tac_done", "divide_error"} =>
        \A p \in ShortCircuitNodes :
            Decided(p) => InstrsOf(p \o <<4>>) \cap tdone = {}

\* a run that ended after a nested && or || was decided by its left operand,
\* its right operand having instructions
C2_Witness ==
    /\ phase = "tac_done"
    /\ \E p \in ShortCircuitNodes :
          /\ p # << >>
          /\ Decided(p)
          /\ InstrsOf(p \o <<4>>) # {}

RootIs(kind, op) ==
    /\ input.expr[1] = kind
    /\ kind = "BinOp" => input.expr[2] = op

ResultIdent == result_val[2][2]

\* C3: after the TAC of a && b or a || b ran to its end, the result
\* temporary holds 1 or 0: for && it is 1 exactly when a and b are both
\* non-zero, for || it is 0 exactly when both are zero, with and without a
\* target temporary.
C3_ShortCircuitResult ==
    (phase = "tac_done" /\ (RootIs("BinOp", "LogicalAnd") \/ RootIs("BinOp", "LogicalOr"))) =>
        LET a == RefEval(input.expr[3], input.vals)
            b == RefEval(input.expr[4], a.env)
            res == tenv[ResultIdent]
        IN /\ result_val[2][1] = "Var"
           /\ res \in {0, 1}
           /\ RootIs("BinOp", "LogicalAnd") => (res = 1 <=> (a.v # 0 /\ b.v # 0))
           /\ RootIs("BinOp", "LogicalOr") => (res = 0 <=> (a.v = 0 /\ b.v = 0))

\* an && with a target whose operands are non-zero and whose right operand is not 1
C3_Witness ==
    /\ phase = "tac_done"
    /\ RootIs("BinOp", "LogicalAnd")
    /\ input.target = Some(IdentT)
    /\ LET a == RefEval(input.expr[3], input.vals)
           b == RefEval(input.expr[4], a.env)
       IN a.v # 0 /\ b.v \notin {0, 1}
    /\ tenv[IdentT] = 1

\* the identifiers the list writes, in instruction order
RECURSIVE Writes(_)
Writes(list) ==
    IF list = << >> THEN << >>
    ELSE LET w == get_written_identifier(Head(list))
         IN (IF is_some(w) THEN <<w[2]>> ELSE << >>) \o Writes(Tail(list))

LastWrite(list) == LET w == Writes(list) IN IF w = << >> THEN None ELSE Some(w[Len(w)])

\* the expression's last instructions are a postfix ++ or --
RECURSIVE EndsInPostfix(_)
EndsInPostfix(e) ==
    \/ e[1] \in {"PostfixInc", "PostfixDec"}
    \/ e[1] = "Ternary" /\ EndsInPostfix(e[4])

Before(p, q) == \A i \in InstrsOf(p), j \in InstrsOf(q) : i < j

\* the value the lowering returned for the argument arg at path p
ArgValue(arg, p, v) ==
    CASE arg[1] = "Int" -> v = Lit(arg[2], VarSizeDefault)
      [] arg[1] \in {"Var", "PrefixInc", "PrefixDec", "Assign"} ->
            v = TVar(resolve_variable_to_temp_name(arg[2], ExprEnv))
      [] OTHER ->
            /\ v[1] = "Var"
            /\ \E i \in InstrsOf(p) : get_written_identifier(tac[i]) = Some(v[2])

\* C5: in the TAC of a non-short-circuit BinOp(op, a, b) every instruction
\* of a precedes every instruction of b and the BinOp instruction comes
\* last; in the TAC of FunctionCall(f, args) the instructions of argument i
\* precede those of argument j for i < j, the Call comes last and its i-th
\* value is the value of argument i.
C5_OperandOrder ==
    phase = "lowered" =>
        /\ (input.expr[1] = "BinOp" /\ input.expr[2] \notin {"LogicalAnd", "LogicalOr"}) =>
              /\ Before(<<3>>, <<4>>)
              /\ InstrsOf(<<3>>) \cup InstrsOf(<<4>>) = 1..(Len(tac) - 1)
              /\ tac[Len(tac)][1] = "BinOp"
              /\ tac[Len(tac)][5] = input.expr[2]
              /\ org[Len(tac)] = << >>
              /\ ArgValue(input.expr[3], <<3>>, tac[Len(tac)][3])
              /\ ArgValue(input.expr[4], <<4>>, tac[Len(tac)][4])
        /\ input.expr[1] = "FunctionCall" =>
              LET args == input.expr[3]
                  call == tac[Len(tac)]
              IN /\ \A i, j \in 1..Len(args) : i < j => Before(<<3, i>>, <<3, j>>)
                 /\ UNION {InstrsOf(<<3, i>>) : i \in 1..Len(args)} = 1..(Len(tac) - 1)
                 /\ call[1] = "Call"
                 /\ org[Len(tac)] = << >>
                 /\ Len(call[3]) = Len(args)
                 /\ \A i \in 1..Len(args) : ArgValue(args[i], <<3, i>>, call[3][i])

\* a BinOp both of whose operands have instructions
C5_Witness ==
    /\ phase = "lowered"
    /\ input.expr[1] = "BinOp"
    /\ input.expr[2] = "Minus"
    /\ InstrsOf(<<3>>) # {}
    /\ InstrsOf(<<4>>) # {}
    /\ Before(<<3>>, <<4>>)

---------------------------------------------------------------------------
(* Whole programs. *)

\* the compilation or the run of the emitted code has ended
Terminal ==
    phase \in {"exit", "panic", "lowering_failed", "fell_off", "x86_timeout",
               "x86_divide_error", "x86_external_call", "x86_other_syscall"}

\* C1: for every program to which the reference C semantics gives a return
\* value v, the emitted code ends in the exit system call with status
\* v mod 256 (and in nothing else: no allocator panic, no trap, no run past
\* the epilogue, no run longer than MaxSteps), and the scenarios of the
\* specification end with the statuses 0, 14, 5, 45, 8, 8 and 1.
C1_ExitStatusRefinesReference ==
    Terminal =>
        /\ RefRun(input).ctl = "return" =>
              /\ phase = "exit"
              /\ status = Some(RefRun(input).v % 256)
        /\ \A k \in 1..Len(Scenarios) :
              input = Scenarios[k] =>
                  /\ phase = "exit"
                  /\ status = Some(ScenarioStatus[k])

\* the identifiers an instruction list reads
ReadIdentifiers(list) == UNION {get_read_identifiers(list[i]) : i \in 1..Len(list)}

\* some instruction before the i-th writes ident
WrittenBefore(list, i, ident) ==
    \E j \in 1..(i - 1) : get_written_identifier(list[j]) = Some(ident)

FirstRead(list, ident) ==
    CHOOSE i \in 1..Len(list) :
        /\ ident \in get_read_identifiers(list[i])
        /\ \A j \in 1..(i - 1) : ident \notin get_read_identifiers(list[j])

\* C6: in the TAC list lowered from a program, for every identifier that is
\* read, the first instruction that reads it comes after the first
\* instruction that writes it.
C6_FirstReadAfterFirstWrite ==
    phase \notin {"parsed", "lowering_failed"} =>
        \A ident \in ReadIdentifiers(tac) : WrittenBefore(tac, FirstRead(tac, ident), ident)

LabelsOf(list) == {i \in 1..Len(list) : list[i][1] = "Label"}
JumpsOf(list) == {i \in 1..Len(list) : list[i][1] \in {"Jmp", "JmpZero", "JmpNotZero"}}

\* C7: in the TAC list lowered from a program no two Label instructions
\* carry the same text, and the target of every Jmp, JmpZero and JmpNotZero
\* is the text of exactly one Label of the list.
C7_LabelsUniqueJumpsResolve ==
    phase # "parsed" =>
        /\ \A i, j \in LabelsOf(tac) : tac[i][2] = tac[j][2] => i = j
        /\ \A i \in JumpsOf(tac) :
              Cardinality({j \in LabelsOf(tac) : tac[j][2] = tac[i][2]}) = 1

\* a returned && whose two operands are themselves && or ||: three label pairs
C7_Witness ==
    /\ phase = "lowered"
    /\ Len(input) = 3
    /\ input[3][1] = "Return"
    /\ LET e == input[3][2]
       IN /\ e[1] = "BinOp" /\ e[2] = "LogicalAnd"
          /\ e[3][1] = "BinOp" /\ e[3][2] = "LogicalAnd"
          /\ e[4][1] = "BinOp" /\ e[4][2] = "LogicalOr"
    /\ Cardinality(LabelsOf(tac)) = 6
    /\ Cardinality(JumpsOf(tac)) = 6

---------------------------------------------------------------------------
(* The code generator on a TAC list. *)

\* some instruction reads an identifier that no strictly earlier one writes
UnwrittenRead(list) ==
    \E i \in 1..Len(list) :
        \E ident \in get_read_identifiers(list[i]) : ~WrittenBefore(list, i, ident)

\* C8: for every TAC list in which some instruction reads an identifier
\* that no strictly earlier instruction writes, RegisterAllocator::new
\* panics and generate_x86_code produces no x86 code; the destination of
\* the reading instruction itself is no earlier write.
C8_PanicOnUnwrittenRead ==
    (phase # "lowered" /\ UnwrittenRead(tac)) =>
        /\ phase = "panic"
        /\ x86 = << >>
        /\ reg_alloc = << >>

\* the panic on a list whose only unwritten read is of the instruction's own
\* destination
C8_Witness ==
    /\ phase = "panic"
    /\ x86 = << >>
    /\ \E i \in 1..Len(tac) :
          /\ tac[i][1] = "BinOp"
          /\ get_written_identifier(tac[i]) = Some(IdentX)
          /\ IdentX \in get_read_identifiers(tac[i])
          /\ ~WrittenBefore(tac, i, IdentX)
          /\ ~UnwrittenRead(SubSeq(tac, 1, i - 1) \o SubSeq(tac, i + 1, Len(tac)))

\* the x86 instructions of the i-th TAC instruction
Expansion(i) == gen_x86_for_tac(tac[i], reg_alloc)

\* the number of x86 instructions before the expansion of the i-th TAC instruction
RECURSIVE ExpansionStart(_)
ExpansionStart(i) == IF i = 1 THEN 3 ELSE ExpansionStart(i - 1) + Len(Expansion(i - 1))

\* C9: the output of generate_x86_code is push rbp; mov rbp, rsp; sub rsp,
\* frame_bytes, then the expansion of every TAC instruction, whole and in
\* TAC order, then mov rsp, rbp; pop rbp, also when the last TAC
\* instruction is Exit.
C9_PrologueBodyEpilogue ==
    phase \notin {"lowered", "panic"} =>
        /\ Len(x86) = ExpansionStart(Len(tac) + 1) + 2
        /\ SubSeq(x86, 1, 3) = << <<"Push", "Rbp">>,
                                  <<"Mov", <<"Reg", "Rbp">>, <<"Reg", "Rsp">> >>,
                                  <<"SubImm", "Rsp", num_bytes_needed>> >>
        /\ \A i \in 1..Len(tac) :
              /\ SubSeq(x86, ExpansionStart(i) + 1, ExpansionStart(i + 1)) = Expansion(i)
              /\ \A k \in (ExpansionStart(i) + 1)..ExpansionStart(i + 1) : xorg[k] = i
        /\ SubSeq(x86, Len(x86) - 1, Len(x86)) =
              << <<"Mov", <<"Reg", "Rsp">>, <<"Reg", "Rbp">> >>, <<"Pop", "Rbp">> >>

\* code generated from a list of three instructions that ends in Exit
C9_Witness ==
    /\ phase = "generated"
    /\ Len(tac) = 3
    /\ tac[3][1] = "Exit"
    /\ tac[1] # tac[2]
    /\ x86[Len(x86) - 2] = <<"Syscall">>
    /\ x86[Len(x86)] = <<"Pop", "Rbp">>

\* the machine is at, or has just executed, a Syscall instruction
AtSyscall ==
    /\ phase \in {"generated", "exit", "x86_other_syscall"}
    /\ xpc <= Len(x86)
    /\ x86[xpc] = <<"Syscall">>

\* C10: when the Syscall emitted for an Exit(v) executes, rax holds 60 and
\* rdi holds the value of v: the literal for Lit, the content of the stack
\* slot of the identifier for Var.
C10_ExitSyscallRegisters ==
    AtSyscall =>
        LET v == tac[xorg[xpc]][2]
        IN /\ tac[xorg[xpc]][1] = "Exit"
           /\ regs["Rax"] = 60
           /\ v[1] = "Lit" => regs["Rdi"] = v[2]
           /\ v[1] = "Var" =>
                 /\ regs["Rbp"] - get_location(reg_alloc, v[2])[2] \in DOMAIN mem
                 /\ regs["Rdi"] = mem[regs["Rbp"] - get_location(reg_alloc, v[2])[2]]

\* the exit of a list that returns y, computed from x
C10_Witness ==
    /\ phase = "exit"
    /\ AtSyscall
    /\ tac[xorg[xpc]] = <<"Exit", TVar(IdentY)>>
    /\ regs["Rax"] = 60
    /\ regs["Rdi"] = 1
    /\ status = Some(1)

\* the x86 instruction writes rbp or rsp
ChangesFrame(instr) ==
    \/ instr[1] \in {"Push", "Pop", "SubImm"}
    \/ instr[1] \in {"Mov", "MovImm"} /\ instr[2] \in {Reg("Rbp"), Reg("Rsp")}

\* the positions of the x86 instructions between the prologue and the epilogue
BodyPositions == 4..(Len(x86) - 2)

\* C11: no x86 instruction between the prologue and the epilogue is a Push,
\* a Pop, a SubImm or a Mov into rbp or rsp, and from the first instruction
\* after the prologue to the last one before the epilogue rbp keeps the
\* value the prologue gave it (the entry rsp, 0, less the 8 bytes of the
\* pushed rbp) and rsp stays num_bytes_needed below it.
C11_FramePointerUnchangedInBody ==
    phase \notin {"lowered", "panic"} =>
        /\ \A k \in BodyPositions : ~ChangesFrame(x86[k])
        /\ xpc \in 4..(Len(x86) - 1) =>
              /\ regs["Rbp"] = 0 - 8
              /\ regs["Rsp"] = regs["Rbp"] - num_bytes_needed

\* the machine ran a body of three instructions that write two slots and
\* stands before the epilogue with the frame the prologue set up
C11_Witness ==
    /\ phase = "generated"
    /\ Len(tac) = 3
    /\ tac[3][1] = "BinOp"
    /\ Len(x86) > 8
    /\ xpc = Len(x86) - 1
    /\ num_bytes_needed > 0
    /\ regs["Rbp"] = 0 - 8
    /\ regs["Rsp"] = regs["Rbp"] - num_bytes_needed

\* the ternary nodes of the expression
TernaryNodes == {p \in NodePaths(input.expr) : SubExpr(input.expr, p)[1] = "Ternary"}

\* some instruction generated from the sub-expression at p was executed
Ran(p) == InstrsOf(p) \cap tdone # {}

\* some instruction generated from the sub-expression at p writes identifier t
WritesIdent(p, t) == \E i \in InstrsOf(p) : get_written_identifier(tac[i]) = Some(t)

\* C13: a run of the TAC of Ternary(c, x, y) executes the instructions of c
\* before the jump, then instructions of x and none of y when c is non-zero,
\* of y and none of x when c is zero, and ends with the result temporary
\* holding the value of the chosen branch; both branches write the result
\* temporary; in no run, at no nesting, do both branches of a ternary execute.
C13_TernaryRunsOneBranch ==
    /\ phase \in {"lowered", "tac_done", "divide_error"} =>
          \A p \in TernaryNodes : ~(Ran(p \o <<3>>) /\ Ran(p \o <<4>>))
    /\ (phase = "tac_done" /\ RootIs("Ternary", "")) =>
          LET c == RefEval(input.expr[2], input.vals)
              chosen == IF c.v # 0 THEN 3 ELSE 4
              other == IF c.v # 0 THEN 4 ELSE 3
              b == RefEval(input.expr[chosen], c.env)
          IN /\ Observed(JumpOf(<< >>)) = {c.v}
             /\ \A i \in InstrsOf(<<2>>) : i < JumpOf(<< >>)
             /\ InstrsOf(<<2>>) # {} => Ran(<<2>>)
             /\ Ran(<<chosen>>)
             /\ ~Ran(<<other>>)
             /\ result_val[2][1] = "Var"
             /\ tenv[ResultIdent] = b.v
             /\ WritesIdent(<<3>>, ResultIdent)
             /\ WritesIdent(<<4>>, ResultIdent)

\* a finished run of a ternary without target whose decision has instructions
\* and is zero, so that the else-branch ran and gave a non-zero result
C13_Witness ==
    /\ phase = "tac_done"
    /\ RootIs("Ternary", "")
    /\ input.target = None
    /\ InstrsOf(<<2>>) # {}
    /\ Observed(JumpOf(<< >>)) = {0}
    /\ Ran(<<4>>)
    /\ ~Ran(<<3>>)
    /\ tenv[ResultIdent] # 0

\* the identifiers the TAC list writes
WrittenIdents ==
    {get_written_identifier(tac[i])[2] :
        i \in {i \in 1..Len(tac) : is_some(get_written_identifier(tac[i]))}}

\* the index of the first instruction that writes t
FirstWriteIndex(t) ==
    CHOOSE i \in 1..Len(tac) :
        /\ get_written_identifier(tac[i]) = Some(t)
        /\ \A j \in 1..(i - 1) : get_written_identifier(tac[j]) # Some(t)

\* the number of identifiers first written before t is
FirstWriteRank(t) ==
    Cardinality({u \in WrittenIdents : FirstWriteIndex(u) < FirstWriteIndex(t)})

\* C14: for every TAC list RegisterAllocator::new accepts, an identifier
\* written more than once included, the identifier whose first write is the
\* k-th among first writes (k = 0, 1, ...) has the location Mem((k+1)*4).
C14_FirstWriteOrderLocation ==
    phase \notin {"lowered", "panic"} =>
        \A t \in WrittenIdents :
            get_location(reg_alloc, t) = Mem((FirstWriteRank(t) + 1) * 4)

\* C15: the byte footprint RegisterAllocator::new returns, which the
\* prologue subtracts from rsp, is 4 times the number of distinct
\* identifiers the accepted TAC list writes.
C15_FootprintFourPerIdentifier ==
    phase \notin {"lowered", "panic"} =>
        /\ num_bytes_needed = 4 * Cardinality(WrittenIdents)
        /\ x86[3] = <<"SubImm", "Rsp", 4 * Cardinality(WrittenIdents)>>

---------------------------------------------------------------------------
(* Sizes: generate_expr_tac on a binary operation over variables of        *)
(* different sizes, with and without a suggested size and a target.        *)

VarSizes == {"Byte", "Word", "Dword", "Quad"}
OptSizes == {None} \cup {Some(s) : s \in VarSizes}

IdentQ == <<3, "Quad">>
IdentW == <<4, "Word">>

\* a scope with a long q, a short w and an int x
SizedEnv == [n \in {"q", "w", "x"} |-> CASE n = "q" -> IdentQ [] n = "w" -> IdentW [] n = "x" -> IdentX]

\* the operands beside a literal: variables of three sizes, a sized
\* sub-expression, an assignment, a call, another literal
Siblings ==
    {ExprVar("q"), ExprVar("w"), ExprVar("x"), ExprInt(0),
     ExprBinOp("Plus", ExprVar("w"), ExprInt(1)),
     ExprAssign("q", ExprInt(1)),
     ExprFunctionCall("f", << >>)}

SizedExprs ==
    {ExprBinOp(op, ExprInt(MaxLit), s) : op \in {"Plus", "LessThan"}, s \in Siblings}
    \cup {ExprBinOp(op, s, ExprInt(MaxLit)) : op \in {"Plus", "LessThan"}, s \in Siblings}

InitLit ==
    /\ phase = "parsed"
    /\ \E e \in SizedExprs, target \in {None, Some(IdentT)}, suggested \in OptSizes :
          input = [expr |-> e, target |-> target, suggested |-> suggested]
    /\ temp_counter = 5
    /\ label_counter = 0
    /\ tac = << >>
    /\ org = << >>
    /\ result_val = None
    /\ tpc = 1
    /\ tenv = << >>
    /\ tdone = {}
    /\ tobs = << >>
    /\ NotGenerated
    /\ MachineOff

\* generate_expr_tac on the chosen operation with the chosen suggested size
LowerSized ==
    /\ phase = "parsed"
    /\ LET r == generate_expr_tac(input.expr, SizedEnv, input.target, input.suggested,
                                  [t |-> temp_counter, l |-> label_counter], << >>)
       IN /\ tac' = r.instrs
          /\ org' = r.org
          /\ result_val' = Some(r.val)
          /\ temp_counter' = r.st.t
          /\ label_counter' = r.st.l
    /\ phase' = "lowered"
    /\ UNCHANGED <<input, tacvars, genvars, xvars>>

NextLit == LowerSized

SpecLit == InitLit /\ [][NextLit]_vars

\* C16: when a bare integer literal is one operand of a BinOp, the Lit the
\* emitted BinOp instruction reads for it carries the size of the other
\* operand if that operand has a size, else the suggested size if there is
\* one, else the default size.
C16_LiteralTakesSiblingSize ==
    phase = "lowered" =>
        LET e == input.expr
            binop == tac[Len(tac)]
        IN \A side \in {3, 4} :
              e[side][1] = "Int" =>
                  LET sibling == get_expr_size(e[7 - side], SizedEnv)
                      size == IF is_some(sibling) THEN sibling[2]
                              ELSE unwrap_or_default(input.suggested)
                  IN /\ binop[1] = "BinOp"
                     /\ binop[side] = Lit(e[side][2], size)

---------------------------------------------------------------------------
(* Array initializers: gen_arr_init_expr_tac on a brace list, then a run   *)
(* of its TAC over a memory of addressed cells.                            *)

Fund(size) == <<"Fund", size>>
Arr(inner, n) == <<"Arr", inner, n>>
ArrInitExpr(exprs) == <<"ArrInitExpr", exprs>>

to_num_bytes(size) ==
    CASE size = "Byte" -> 1 [] size = "Word" -> 2 [] size = "Dword" -> 4 [] size = "Quad" -> 8

RECURSIVE num_bytes(_)
num_bytes(type) ==
    IF type[1] = "Fund" THEN to_num_bytes(type[2]) ELSE type[3] * num_bytes(type[2])

\* the nested initializer laid out through the outer pointer itself
nested_pointer_shared(new_ptr, ptr_to_arr) == ptr_to_arr

\* the pointer a nested initializer is laid out through: the fresh copy
nested_pointer(new_ptr, ptr_to_arr) == new_ptr

\* gen_arr_init_expr_tac returns [instrs, org, st].
\* a scalar element: its expression r, then the store through the pointer
scalar_elem(r, ptr_to_arr, here) ==
    [instrs |-> r.instrs \o << <<"DerefStore", ptr_to_arr, r.val>> >>,
     org |-> r.org \o <<here>>,
     st |-> r.st]

\* a nested initializer: the copy of the pointer, then the recursive call's rec
copied_then(new_ptr, ptr_to_arr, here, rec) ==
    [instrs |-> << <<"Copy", new_ptr, TVar(ptr_to_arr)>> >> \o rec.instrs,
     org |-> <<here>> \o rec.org,
     st |-> rec.st]

\* an element, the advance of the pointer by the size, the elements after it
bumped_then(arr_type, ptr_to_arr, here, elem, rest) ==
    [instrs |-> elem.instrs
                  \o << <<"BinOp", ptr_to_arr, TVar(ptr_to_arr),
                          Lit(num_bytes(arr_type), "Quad"), "Plus">> >>
                  \o rest.instrs,
     org |-> elem.org \o <<here>> \o rest.org,
     st |-> rest.st]

\* gen_arr_init_elems is the "for expr in exprs" loop from element i on, the
\* recursive call on a nested initializer entering the loop of that
\* initializer at its first element
RECURSIVE gen_arr_init_elems(_, _, _, _, _, _, _)

\* the ArrInitExpr arm of the loop, new_ptr being the fresh temporary np.id
nested_elem(arr_type, expr, ptr_to_arr, code_env, np, here) ==
    copied_then(np.id, ptr_to_arr, here,
                gen_arr_init_elems(arr_type[2], expr[2], 1,
                                   nested_pointer(np.id, ptr_to_arr), code_env, np.st, here))

\* the match on the element
gen_arr_elem(arr_type, expr, ptr_to_arr, code_env, st, here) ==
    IF expr[1] = "ArrInitExpr"
    THEN nested_elem(arr_type, expr, ptr_to_arr, code_env, get_new_temp_name("Quad", st), here)
    ELSE scalar_elem(generate_expr_tac(expr, code_env, None, None, st, here), ptr_to_arr, here)

\* the loop after the element at i was lowered to elem
gen_arr_rest(arr_type, exprs, i, ptr_to_arr, code_env, path, elem) ==
    bumped_then(arr_type, ptr_to_arr, path \o <<i>>, elem,
                gen_arr_init_elems(arr_type, exprs, i + 1, ptr_to_arr, code_env, elem.st, path))

gen_arr_init_elems(arr_type, exprs, i, ptr_to_arr, code_env, st, path) ==
    IF i > Len(exprs) THEN [instrs |-> << >>, org |-> << >>, st |-> st]
    ELSE gen_arr_rest(arr_type, exprs, i, ptr_to_arr, code_env, path,
                      gen_arr_elem(arr_type, exprs[i], ptr_to_arr, code_env, st, path \o <<i>>))

gen_arr_init_expr_tac(arr_type, arr_init_expr, ptr_to_arr, code_env, st, path) ==
    gen_arr_init_elems(arr_type, arr_init_expr[2], 1, ptr_to_arr, code_env, st, path)

IdentP == <<5, "Quad">>

\* the elements that are scalar expressions
Scalars == {ExprInt(1), ExprVar("x"), ExprBinOp("Plus", ExprVar("x"), ExprInt(MaxLit))}

MaxElems == 2

\* the brace lists of at most n scalars
ScalarLists(n) == UNION {[1..k -> Scalars] : k \in 0..n}

\* the initializers with their types: lists of scalars for an int or a char
\* array, lists of one or two scalars and nested lists for an array of int[2]
ArrInputs ==
    {[arr_type |-> Fund(s), init |-> ArrInitExpr(l)] :
        s \in {"Dword", "Byte"}, l \in ScalarLists(MaxElems + 1)}
    \cup {[arr_type |-> Arr(Fund("Dword"), MaxElems), init |-> ArrInitExpr(l)] :
            l \in UNION {[1..k -> Scalars \cup {ArrInitExpr(n) : n \in ScalarLists(MaxElems)}] :
                            k \in 1..2}}

InitArr ==
    /\ phase = "parsed"
    /\ \E a \in ArrInputs, p0 \in {0, 100}, vx \in 0..MaxInit :
          /\ input = [arr_type |-> a.arr_type, init |-> a.init, p0 |-> p0,
                      vals |-> [n \in {"x", "y"} |-> vx]]
          /\ tenv = [i \in {IdentX, IdentY, IdentP} |-> IF i = IdentP THEN p0 ELSE vx]
    /\ temp_counter = 6
    /\ label_counter = 0
    /\ tac = << >>
    /\ org = << >>
    /\ result_val = None
    /\ tpc = 1
    /\ tdone = {}
    /\ tobs = << >>
    /\ NotGenerated
    /\ MachineOff

\* gen_arr_init_expr_tac on the chosen initializer with the pointer p
LowerArr ==
    /\ phase = "parsed"
    /\ LET r == gen_arr_init_expr_tac(input.arr_type, input.init, IdentP, ExprEnv,
                                      [t |-> temp_counter, l |-> label_counter], << >>)
       IN /\ tac' = r.instrs
          /\ org' = r.org
          /\ temp_counter' = r.st.t
          /\ label_counter' = r.st.l
    /\ phase' = "lowered"
    /\ UNCHANGED <<input, result_val, tacvars, genvars, xvars>>

\* one instruction of the list is executed; DerefStore(p, v) writes the value
\* of v into the cell at the address p holds
ArrStep ==
    /\ phase = "lowered"
    /\ tpc <= Len(tac)
    /\ IF tac[tpc][1] = "DerefStore"
       THEN LET addr == tenv[tac[tpc][2]]
                v == tac_val(tac[tpc][3], tenv)
            IN /\ mem' = [a \in DOMAIN mem \cup {addr} |-> IF a = addr THEN v ELSE mem[a]]
               /\ tobs' = Append(tobs, <<tpc, addr, v>>)
               /\ tpc' = tpc + 1
               /\ UNCHANGED <<tenv, phase>>
       ELSE LET r == tac_exec(tac, tpc, tenv)
            IN /\ tpc' = r.pc
               /\ tenv' = r.env
               /\ phase' = IF r.how = "run" THEN "lowered" ELSE r.how
               /\ UNCHANGED <<mem, tobs>>
    /\ tdone' = tdone \cup {tpc}
    /\ UNCHANGED <<input, lowvars, genvars, xpc, regs, flags, xsteps, status>>

NextArr == LowerArr \/ ArrStep \/ TacEnd

SpecArr == InitArr /\ [][NextArr]_vars

\* the address and the value of every executed DerefStore generated from the
\* element at path
StoresOf(path) ==
    {<<tobs[k][2], tobs[k][3]>> :
        k \in {k \in DOMAIN tobs : org[tobs[k][1]] = path /\ tac[tobs[k][1]][1] = "DerefStore"}}

\* the pointer the stores of the element at path go through
PointersOf(path) ==
    {tac[i][2] : i \in {i \in 1..Len(tac) : org[i] = path /\ tac[i][1] = "DerefStore"}}

\* the nested initializers among the outer elements
NestedElems == {k \in 1..Len(input.init[2]) : input.init[2][k][1] = "ArrInitExpr"}

\* the fresh pointer of the nested initializer at outer position k
CopyOf(k) == CHOOSE i \in 1..Len(tac) : org[i] = <<k>> /\ tac[i][1] = "Copy"

\* C17: after a run of the TAC gen_arr_init_expr_tac emits for n elements
\* with element size S and a pointer p holding p0 on entry, the k-th element
\* (k = 0..n-1), if a scalar, was stored once, at p0 + k*S, with its value;
\* if a nested initializer, it was laid out from p0 + k*S on in steps of its
\* own element size through a fresh copy of p, one per nested initializer;
\* and p holds p0 + n*S, whatever the number of elements of the nested ones.
C17_ArrayInitLayout ==
    phase = "tac_done" =>
        LET elems == input.init[2]
            S == num_bytes(input.arr_type)
            value(e) == RefEval(e, input.vals).v
        IN /\ \A k \in 1..Len(elems) :
                 IF k \in NestedElems
                 THEN /\ tac[CopyOf(k)] = <<"Copy", tac[CopyOf(k)][2], TVar(IdentP)>>
                      /\ tac[CopyOf(k)][2] \notin {IdentP, IdentX, IdentY}
                      /\ \A k2 \in NestedElems \ {k} : tac[CopyOf(k2)][2] # tac[CopyOf(k)][2]
                      /\ \A j \in 1..Len(elems[k][2]) :
                            /\ PointersOf(<<k, j>>) = {tac[CopyOf(k)][2]}
                            /\ StoresOf(<<k, j>>) =
                                  {<<input.p0 + (k - 1) * S
                                        + (j - 1) * num_bytes(input.arr_type[2]),
                                     value(elems[k][2][j])>>}
                 ELSE /\ PointersOf(<<k>>) = {IdentP}
                      /\ StoresOf(<<k>>) = {<<input.p0 + (k - 1) * S, value(elems[k])>>}
           /\ tenv[IdentP] = input.p0 + Len(elems) * S

\* a finished run for { {e}, {e, e} } over int[2] elements from address 100:
\* the second nested initializer starts 8 bytes after the first although the
\* first holds one element only
C17_Witness ==
    /\ phase = "tac_done"
    /\ input.p0 = 100
    /\ NestedElems = {1, 2}
    /\ Len(input.init[2][1][2]) = 1
    /\ Len(input.init[2][2][2]) = 2
    /\ DOMAIN mem = {100, 108, 112}
    /\ tenv[IdentP] = 116

---------------------------------------------------------------------------
(* The expression parser: generate_expr_ast over a token list.  Every      *)
(* parsing function returns [expr, i, ok]: the expression, the position of *)
(* the cursor after it and whether no parse error was raised.              *)

TokIdentifier(val) == <<"Identifier", val>>
TokIntLit(val) == <<"IntLit", val>>
TokOp(op) == <<"Op", op>>
TokQuestionMark == <<"QuestionMark">>
TokColon == <<"Colon">>
TokAssignmentEquals == <<"AssignmentEquals">>
TokOpenParen == <<"OpenParen">>
TokCloseParen == <<"CloseParen">>
TokComma == <<"Comma">>

\* tokens.peek_nth(n) with the cursor at i: peek_nth(1) is peek()
peek_nth(tokens, i, n) == IF i + n - 1 <= Len(tokens) THEN Some(tokens[i + n - 1]) ELSE None

peek(tokens, i) == peek_nth(tokens, i, 1)

ParseError(i) == [expr |-> <<"Error">>, i |-> i, ok |-> FALSE]

\* the chain of levels with multiplicative loosest but one
next_level_mul_above_add(level) ==
    CASE level = "LogicalOr" -> Some("LogicalAnd")
      [] level = "LogicalAnd" -> Some("EqCmp")
      [] level = "EqCmp" -> Some("OrderingCmp")
      [] level = "OrderingCmp" -> Some("MulDiv")
      [] level = "MulDiv" -> Some("AddSub")
      [] level = "AddSub" -> None

\* BinOpPrecedenceLevel::next_level: the next tighter level
next_level(level) ==
    CASE level = "LogicalOr" -> Some("LogicalAnd")
      [] level = "LogicalAnd" -> Some("EqCmp")
      [] level = "EqCmp" -> Some("OrderingCmp")
      [] level = "OrderingCmp" -> Some("AddSub")
      [] level = "AddSub" -> Some("MulDiv")
      [] level = "MulDiv" -> None

lowest_level == "LogicalOr"

\* the binary operator an operator token stands for, and its level
OpTable ==
    [Star |-> <<"Multiply", "MulDiv">>, Slash |-> <<"Divide", "MulDiv">>,
     Percent |-> <<"Modulus", "MulDiv">>,
     Plus |-> <<"Plus", "AddSub">>, Minus |-> <<"Minus", "AddSub">>,
     GreaterThan |-> <<"GreaterThan", "OrderingCmp">>,
     GreaterThanEq |-> <<"GreaterThanEq", "OrderingCmp">>,
     LessThan |-> <<"LessThan", "OrderingCmp">>,
     LessThanEq |-> <<"LessThanEq", "OrderingCmp">>,
     DoubleEquals |-> <<"Equals", "EqCmp">>, NotEquals |-> <<"NotEquals", "EqCmp">>,
     DoubleAnd |-> <<"LogicalAnd", "LogicalAnd">>,
     DoublePipe |-> <<"LogicalOr", "LogicalOr">>]

\* Token::to_binop_precedence_level: the operator of the token if it is a
\* binary operator of the given level
to_binop_precedence_level(token, level) ==
    IF token[1] = "Op" /\ token[2] \in DOMAIN OpTable /\ OpTable[token[2]][2] = level
    THEN Some(OpTable[token[2]][1])
    ELSE None

to_un_op(token) ==
    CASE token = TokOp("Minus") -> Some("Negation")
      [] token = TokOp("BitwiseComplement") -> Some("BitwiseComplement")
      [] token = TokOp("Not") -> Some("Not")
      [] OTHER -> None

RECURSIVE generate_expr_ast(_, _, _), expr_ast_loop(_, _, _, _), generate_factor_ast(_, _), parse_function_args(_, _, _)

\* the operand of a binary operator of the level: an expression of the next
\* level, or a factor at the tightest level
generate_operand_ast(tokens, i, level) ==
    IF is_some(next_level(level))
    THEN generate_expr_ast(tokens, i, next_level(level)[2])
    ELSE generate_factor_ast(tokens, i)

generate_expr_ast(tokens, i, curr_operator_precedence) ==
    LET assigns(tok) ==
            /\ curr_operator_precedence = lowest_level
            /\ is_some(peek(tokens, i))
            /\ peek(tokens, i)[2][1] = "Identifier"
            /\ peek_nth(tokens, i, 2) = Some(tok)
        val == tokens[i][2]
        rhs == generate_expr_ast(tokens, i + 2, lowest_level)
        compound(op) == [rhs EXCEPT !.expr = ExprAssign(val, ExprBinOp(op, ExprVar(val), rhs.expr))]
        first == generate_operand_ast(tokens, i, curr_operator_precedence)
    IN CASE assigns(TokAssignmentEquals) ->
               IF rhs.ok THEN [rhs EXCEPT !.expr = ExprAssign(val, rhs.expr)] ELSE rhs
         [] assigns(TokOp("PlusEquals")) -> IF rhs.ok THEN compound("Plus") ELSE rhs
         [] assigns(TokOp("MinusEquals")) -> IF rhs.ok THEN compound("Minus") ELSE rhs
         [] OTHER ->
               IF first.ok
               THEN expr_ast_loop(tokens, first.i, curr_operator_precedence, first.expr)
               ELSE first

\* the "while tokens.peek().is_some()" loop of generate_expr_ast
expr_ast_loop(tokens, i, curr_operator_precedence, expr) ==
    IF peek(tokens, i) = None THEN [expr |-> expr, i |-> i, ok |-> TRUE]
    ELSE IF tokens[i] = TokQuestionMark /\ curr_operator_precedence = lowest_level
    THEN LET first_expr == generate_expr_ast(tokens, i + 1, lowest_level)
             second_expr == generate_expr_ast(tokens, first_expr.i + 1, lowest_level)
         IN IF ~first_expr.ok THEN first_expr
            ELSE IF peek(tokens, first_expr.i) # Some(TokColon) THEN ParseError(first_expr.i)
            ELSE IF ~second_expr.ok THEN second_expr
            ELSE [second_expr EXCEPT
                     !.expr = ExprTernary(expr, first_expr.expr, second_expr.expr)]
    ELSE LET next_op == to_binop_precedence_level(tokens[i], curr_operator_precedence)
             next_expr == generate_operand_ast(tokens, i + 1, curr_operator_precedence)
         IN IF next_op = None THEN [expr |-> expr, i |-> i, ok |-> TRUE]
            ELSE IF ~next_expr.ok THEN next_expr
            ELSE expr_ast_loop(tokens, next_expr.i, curr_operator_precedence,
                               ExprBinOp(next_op[2], expr, next_expr.expr))

generate_factor_ast(tokens, i) ==
    LET tok == peek(tokens, i)
        inner == generate_expr_ast(tokens, i + 1, lowest_level)
        factor == generate_factor_ast(tokens, i + 1)
        args == parse_function_args(tokens, i + 2, << >>)
        after(rec, e) == [expr |-> e, i |-> rec.i, ok |-> TRUE]
    IN CASE tok = None -> ParseError(i)
         [] tok = Some(TokOpenParen) ->
               IF ~inner.ok THEN inner
               ELSE IF peek(tokens, inner.i) # Some(TokCloseParen) THEN ParseError(inner.i)
               ELSE [inner EXCEPT !.i = @ + 1]
         [] tok # None /\ is_some(to_un_op(tok[2])) ->
               IF factor.ok THEN after(factor, ExprUnOp(to_un_op(tok[2])[2], factor.expr))
               ELSE factor
         [] tok # None /\ tok[2][1] = "IntLit" ->
               [expr |-> ExprInt(tok[2][2]), i |-> i + 1, ok |-> TRUE]
         [] tok # None /\ tok[2][1] = "Identifier" ->
               CASE peek(tokens, i + 1) = Some(TokOp("MinusMinus")) ->
                        [expr |-> <<"PostfixDec", tok[2][2]>>, i |-> i + 2, ok |-> TRUE]
                 [] peek(tokens, i + 1) = Some(TokOp("PlusPlus")) ->
                        [expr |-> <<"PostfixInc", tok[2][2]>>, i |-> i + 2, ok |-> TRUE]
                 [] peek(tokens, i + 1) = Some(TokOpenParen) ->
                        IF ~args.ok THEN args
                        ELSE IF peek(tokens, args.i) # Some(TokCloseParen)
                        THEN ParseError(args.i)
                        ELSE [expr |-> ExprFunctionCall(tok[2][2], args.expr),
                              i |-> args.i + 1, ok |-> TRUE]
                 [] OTHER -> [expr |-> ExprVar(tok[2][2]), i |-> i + 1, ok |-> TRUE]
         [] tok \in {Some(TokOp("PlusPlus")), Some(TokOp("MinusMinus"))} ->
               IF is_some(peek(tokens, i + 1)) /\ peek(tokens, i + 1)[2][1] = "Identifier"
               THEN [expr |-> <<IF tok[2][2] = "PlusPlus" THEN "PrefixInc" ELSE "PrefixDec",
                                tokens[i + 1][2]>>,
                     i |-> i + 2, ok |-> TRUE]
               ELSE ParseError(i + 1)
         [] OTHER -> ParseError(i)

\* parse_function_args with args collected so far; expr is the argument list
parse_function_args(tokens, i, args) ==
    IF args = << >> /\ peek(tokens, i) = Some(TokCloseParen)
    THEN [expr |-> << >>, i |-> i, ok |-> TRUE]
    ELSE LET arg == generate_expr_ast(tokens, i, lowest_level)
         IN IF ~arg.ok THEN arg
            ELSE IF peek(tokens, arg.i) = Some(TokComma)
            THEN parse_function_args(tokens, arg.i + 1, Append(args, arg.expr))
            ELSE [expr |-> Append(args, arg.expr), i |-> arg.i, ok |-> TRUE]

OpTokens == {TokOp(o) : o \in DOMAIN OpTable}

TokA == TokIdentifier("a")
TokB == TokIdentifier("b")
TokC == TokIntLit(1)
TokD == TokIdentifier("d")
TokE == TokIntLit(MaxLit)

\* the token lists parsed: two binary operators in a row, the same with the
\* right pair in parentheses, a binary operator before and after a ternary,
\* an assignment of a binary operation, and single lists with nested
\* ternaries, chained assignments and one operator of every level
TokenLists ==
    {[kind |-> "two_ops", ops |-> <<o1, o2>>, tokens |-> <<TokA, o1, TokB, o2, TokC>>] :
        o1 \in OpTokens, o2 \in OpTokens}
    \cup {[kind |-> "paren", ops |-> <<o1, o2>>,
           tokens |-> <<TokA, o1, TokOpenParen, TokB, o2, TokC, TokCloseParen>>] :
            o1 \in OpTokens, o2 \in OpTokens}
    \cup {[kind |-> "op_ternary", ops |-> <<o1>>,
           tokens |-> <<TokA, o1, TokB, TokQuestionMark, TokC, TokColon, TokD>>] :
            o1 \in OpTokens}
    \cup {[kind |-> "ternary_op", ops |-> <<o1>>,
           tokens |-> <<TokA, TokQuestionMark, TokB, TokColon, TokC, o1, TokD>>] :
            o1 \in OpTokens}
    \cup {[kind |-> "assign_op", ops |-> <<o1>>,
           tokens |-> <<TokA, TokAssignmentEquals, TokB, o1, TokC>>] : o1 \in OpTokens}
    \cup {[kind |-> "ternary_in_else", ops |-> << >>,
           tokens |-> <<TokA, TokQuestionMark, TokB, TokColon,
                        TokC, TokQuestionMark, TokD, TokColon, TokE>>],
          [kind |-> "ternary_in_then", ops |-> << >>,
           tokens |-> <<TokA, TokQuestionMark, TokB, TokQuestionMark, TokC, TokColon, TokD,
                        TokColon, TokE>>],
          [kind |-> "assign_assign", ops |-> << >>,
           tokens |-> <<TokA, TokAssignmentEquals, TokB, TokAssignmentEquals, TokC>>],
          [kind |-> "assign_ternary", ops |-> << >>,
           tokens |-> <<TokA, TokAssignmentEquals, TokB, TokQuestionMark, TokC, TokColon, TokD>>],
          [kind |-> "loosest_first", ops |-> << >>,
           tokens |-> <<TokA, TokOp("DoublePipe"), TokB, TokOp("DoubleAnd"), TokC,
                        TokOp("DoubleEquals"), TokD, TokOp("LessThan"), TokE,
                        TokOp("Plus"), TokA, TokOp("Star"), TokB>>],
          [kind |-> "tightest_first", ops |-> << >>,
           tokens |-> <<TokA, TokOp("Star"), TokB, TokOp("Plus"), TokC,
                        TokOp("LessThan"), TokD, TokOp("DoubleEquals"), TokE,
                        TokOp("DoubleAnd"), TokA, TokOp("DoublePipe"), TokB>>]}

InitParse ==
    /\ phase = "tokens"
    /\ input \in TokenLists
    /\ temp_counter = 0
    /\ label_counter = 0
    /\ tac = << >>
    /\ org = << >>
    /\ result_val = None
    /\ tpc = 1
    /\ tenv = << >>
    /\ tdone = {}
    /\ tobs = << >>
    /\ NotGenerated
    /\ MachineOff

\* generate_expr_ast at the lowest level on the whole token list
ParseExpr ==
    /\ phase = "tokens"
    /\ result_val' = generate_expr_ast(input.tokens, 1, lowest_level)
    /\ phase' = "ast"
    /\ UNCHANGED <<input, temp_counter, label_counter, tac, org, tacvars, genvars, xvars>>

NextParse == ParseExpr

SpecParse == InitParse /\ [][NextParse]_vars

\* the place of a binary operator in the order of the claim: 1 binds tightest
Looseness(op) ==
    CASE op \in {"Multiply", "Divide", "Modulus"} -> 1
      [] op \in {"Plus", "Minus"} -> 2
      [] op \in {"GreaterThan", "GreaterThanEq", "LessThan", "LessThanEq"} -> 3
      [] op \in {"Equals", "NotEquals"} -> 4
      [] op = "LogicalAnd" -> 5
      [] op = "LogicalOr" -> 6

ExprA == ExprVar("a")
ExprB == ExprVar("b")
ExprC == ExprInt(1)
ExprD == ExprVar("d")
ExprE == ExprInt(MaxLit)

\* the tree the claim gives the token list
ClaimedAst(in) ==
    LET op(k) == OpTable[in.ops[k][2]][1]
    IN CASE in.kind = "two_ops" ->
                IF Looseness(op(2)) < Looseness(op(1))
                THEN ExprBinOp(op(1), ExprA, ExprBinOp(op(2), ExprB, ExprC))
                ELSE ExprBinOp(op(2), ExprBinOp(op(1), ExprA, ExprB), ExprC)
         [] in.kind = "paren" -> ExprBinOp(op(1), ExprA, ExprBinOp(op(2), ExprB, ExprC))
         [] in.kind = "op_ternary" -> ExprTernary(ExprBinOp(op(1), ExprA, ExprB), ExprC, ExprD)
         [] in.kind = "ternary_op" -> ExprTernary(ExprA, ExprB, ExprBinOp(op(1), ExprC, ExprD))
         [] in.kind = "assign_op" -> ExprAssign("a", ExprBinOp(op(1), ExprB, ExprC))
         [] in.kind = "ternary_in_else" ->
                ExprTernary(ExprA, ExprB, ExprTernary(ExprC, ExprD, ExprE))
         [] in.kind = "ternary_in_then" ->
                ExprTernary(ExprA, ExprTernary(ExprB, ExprC, ExprD), ExprE)
         [] in.kind = "assign_assign" -> ExprAssign("a", ExprAssign("b", ExprC))
         [] in.kind = "assign_ternary" -> ExprAssign("a", ExprTernary(ExprB, ExprC, ExprD))
         [] in.kind = "loosest_first" ->
                ExprBinOp("LogicalOr", ExprA,
                    ExprBinOp("LogicalAnd", ExprB,
                        ExprBinOp("Equals", ExprC,
                            ExprBinOp("LessThan", ExprD,
                                ExprBinOp("Plus", ExprE,
                                    ExprBinOp("Multiply", ExprA, ExprB))))))
         [] in.kind = "tightest_first" ->
                ExprBinOp("LogicalOr",
                    ExprBinOp("LogicalAnd",
                        ExprBinOp("Equals",
                            ExprBinOp("LessThan",
                                ExprBinOp("Plus",
                                    ExprBinOp("Multiply", ExprA, ExprB), ExprC), ExprD),
                            ExprE), ExprA), ExprB)

\* C18: generate_expr_ast groups a tighter operator before a looser one in
\* the order multiplicative, additive, ordering comparison, equality
\* comparison, logical and, logical or, with the ternary below all of them;
\* operators of one level group to the left (a - b - c is (a - b) - c);
\* assignment and the branches of the ternary group to the right; the whole
\* token list is consumed without a parse error.
C18_PrecedenceAndAssociativity ==
    phase = "ast" =>
        /\ result_val.ok
        /\ result_val.i = Len(input.tokens) + 1
        /\ result_val.expr = ClaimedAst(input)

\* a - b - 1 parsed as BinOp(Minus, BinOp(Minus, a, b), 1)
C18_Witness ==
    /\ phase = "ast"
    /\ input.tokens = <<TokA, TokOp("Minus"), TokB, TokOp("Minus"), TokC>>
    /\ result_val.expr = ExprBinOp("Minus", ExprBinOp("Minus", ExprA, ExprB), ExprC)

---------------------------------------------------------------------------
(* get_bigger_size applied to the pairs drawn from three optional sizes. *)

InitBigger ==
    /\ phase = "sizes"
    /\ input \in [a : OptSizes, b : OptSizes, c : OptSizes]
    /\ temp_counter = 0
    /\ label_counter = 0
    /\ tac = << >>
    /\ org = << >>
    /\ result_val = None
    /\ tpc = 1
    /\ tenv = << >>
    /\ tdone = {}
    /\ tobs = << >>
    /\ NotGenerated
    /\ MachineOff

\* get_bigger_size on (a, b), on (b, a), on (a, a) and nested both ways
BiggerSize ==
    /\ phase = "sizes"
    /\ result_val' = [ab |-> get_bigger_size(input.a, input.b),
                      ba |-> get_bigger_size(input.b, input.a),
                      aa |-> get_bigger_size(input.a, input.a),
                      ab_c |-> get_bigger_size(get_bigger_size(input.a, input.b), input.c),
                      a_bc |-> get_bigger_size(input.a, get_bigger_size(input.b, input.c))]
    /\ phase' = "sized"
    /\ UNCHANGED <<input, temp_counter, label_counter, tac, org, tacvars, genvars, xvars>>

NextBigger == BiggerSize

SpecBigger == InitBigger /\ [][NextBigger]_vars

\* the place of an optional size in the order None < Byte < Word < Dword < Quad
SizeRank(o) ==
    CASE o = None -> 0
      [] o = Some("Byte") -> 1
      [] o = Some("Word") -> 2
      [] o = Some("Dword") -> 3
      [] o = Some("Quad") -> 4

\* C19: get_bigger_size returns the larger of its two arguments in the order
\* Quad > Dword > Word > Byte > None, returns None only when both are None,
\* and is commutative, associative and idempotent.
C19_BiggerSizeIsMaximum ==
    phase = "sized" =>
        /\ result_val.ab = IF SizeRank(input.a) >= SizeRank(input.b) THEN input.a ELSE input.b
        /\ result_val.ab = None <=> (input.a = None /\ input.b = None)
        /\ result_val.ab = result_val.ba
        /\ result_val.ab_c = result_val.a_bc
        /\ result_val.aa = input.a

\* a smaller size first, a larger second, None third: the larger is returned
C19_Witness ==
    /\ phase = "sized"
    /\ input = [a |-> Some("Word"), b |-> Some("Quad"), c |-> None]
    /\ result_val.ab = Some("Quad")
    /\ result_val.ab_c = Some("Quad")

\* C20: when the BinOp instruction emitted for a non-short-circuit
\* BinOp(op, a, b) executes, the value it reads for the left operand is the
\* value a had when a was evaluated, also when b assigns to a variable a
\* reads; likewise the Call instruction reads for its first argument the
\* value that argument had when it was evaluated, whatever a later argument
\* assigns.
C20_LeftOperandValueKept ==
    (phase = "lowered" /\ Len(tac) > 0 /\ tpc = Len(tac)) =>
        /\ (input.expr[1] = "BinOp" /\ input.expr[2] \notin {"LogicalAnd", "LogicalOr"}) =>
              tac_val(tac[tpc][3], tenv) = RefEval(input.expr[3], input.vals).v
        /\ (input.expr[1] = "FunctionCall" /\ Len(input.expr[3]) > 0) =>
              tac_val(tac[tpc][3][1], tenv) = RefEval(input.expr[3][1], input.vals).v

---------------------------------------------------------------------------
(* Temporaries of several sizes: the code generator on TAC lists that      *)
(* write a Dword x, a Word w and the Quad pointers p and q, q being the    *)
(* copy of p that array initialisation makes for a nested initializer.     *)

SizedTacInstrs ==
    { <<"Copy", IdentX, Lit(1, "Dword")>>,
      <<"Copy", IdentW, Lit(1, "Word")>>,
      <<"Copy", IdentP, Lit(0, "Quad")>>,
      <<"Copy", IdentQ, TVar(IdentP)>>,
      <<"BinOp", IdentP, TVar(IdentP), Lit(4, "Quad"), "Plus">>,
      <<"Exit", TVar(IdentX)>> }

SizedTacLists == UNION {[1..n -> SizedTacInstrs] : n \in 0..MaxTacLen}

InitSlots ==
    /\ phase = "lowered"
    /\ tac \in SizedTacLists
    /\ input = tac
    /\ temp_counter = 6
    /\ label_counter = 0
    /\ org = << >>
    /\ result_val = None
    /\ tpc = 1
    /\ tenv = << >>
    /\ tdone = {}
    /\ tobs = << >>
    /\ NotGenerated
    /\ MachineOff

NextSlots == GenerateX86 \/ X86Step \/ X86End

SpecSlots == InitSlots /\ [][NextSlots]_vars

\* the addresses, relative to rbp, of the bytes temporary t occupies: as many
\* as its size from the address rbp - offset of its location upwards
SlotRange(t) ==
    LET start == 0 - get_location(reg_alloc, t)[2]
    IN start..(start + to_num_bytes(t[2]) - 1)

\* C21: the stack ranges of two distinct temporaries never overlap when each
\* occupies as many bytes as its size (Byte 1, Word 2, Dword 4, Quad 8) at
\* the offset the allocator gave it, the Quad pointer temporaries of array
\* initialisation included.
C21_SlotRangesDisjoint ==
    phase \notin {"lowered", "panic"} =>
        \A t \in DOMAIN reg_alloc, u \in DOMAIN reg_alloc :
            t # u => SlotRange(t) \cap SlotRange(u) = {}

\* the identifiers instruction i of the TAC list reads or writes
IdentsOf(i) ==
    get_read_identifiers(tac[i])
    \cup (IF is_some(get_written_identifier(tac[i]))
          THEN {get_written_identifier(tac[i])[2]} ELSE {})

\* the memory operands of the x86 instruction at position k
MemOperands(k) ==
    IF x86[k][1] = "Mov" THEN {l \in {x86[k][2], x86[k][3]} : l[1] = "Mem"} ELSE {}

\* C22: when RegisterAllocator::new has returned for a TAC list, every
\* identifier an instruction of the list reads or writes has a location,
\* every memory operand of the code emitted for an instruction is the
\* location of one of that instruction's identifiers, two distinct
\* identifiers have different locations, and every offset is a positive
\* multiple of 4 not greater than the frame size.
C22_AllocatorMapInvariants ==
    phase \notin {"lowered", "panic"} =>
        /\ \A i \in 1..Len(tac) : IdentsOf(i) \subseteq DOMAIN reg_alloc
        /\ \A k \in 1..Len(x86) :
              \A l \in MemOperands(k) :
                  \E t \in IdentsOf(xorg[k]) : get_location(reg_alloc, t) = l
        /\ \A t \in DOMAIN reg_alloc, u \in DOMAIN reg_alloc :
              t # u => get_location(reg_alloc, t) # get_location(reg_alloc, u)
        /\ \A t \in DOMAIN reg_alloc :
              LET l == get_location(reg_alloc, t)
              IN /\ l[1] = "Mem"
                 /\ l[2] > 0
                 /\ l[2] % 4 = 0
                 /\ l[2] <= num_bytes_needed

\* code generated for a list that writes x, then y from x, then x again:
\* two identifiers, three slots counted, x in the last of them
C22_Witness ==
    /\ phase = "generated"
    /\ Len(tac) = 3
    /\ DOMAIN reg_alloc = {IdentX, IdentY}
    /\ get_location(reg_alloc, IdentY) = Mem(8)
    /\ get_location(reg_alloc, IdentX) = Mem(12)
    /\ num_bytes_needed = 12
    /\ \E k \in 1..Len(x86) : Mem(8) \in MemOperands(k)

====
